---- MODULE Spec2Model ----
(***************************************************************************)
(* CockpitTunnel (src/src/package-install.js, lines 275-719): a            *)
(* Guacamole.Tunnel that talks to guacd over a cockpit stream channel and  *)
(* performs the guacd handshake itself.                                    *)
(*                                                                         *)
(* JavaScript strings are sequences of one-character strings, so that      *)
(* lengths, prefixes and decimal conversions are computed, not assumed.    *)
(* JavaScript runs every handler to completion: while the message listener *)
(* of a channel is running (receiving # 0) only the instructions the       *)
(* parser still holds of that delivery are processed.                      *)
(***************************************************************************)
EXTENDS Integers, Sequences, FiniteSets, TLC

\* ------------------------------------------------------------------ bounds
\* connect() calls made on one tunnel instance
MaxConnects == 2
\* complete instructions the parser finds in one inbound delivery
MaxBatch == 2
\* cap of the ghost clock that counts ticks since the last inbound delivery
MaxIdle == 4

\* ------------------------------------------------- string literals of the code
S_select == <<"s","e","l","e","c","t">>
S_args == <<"a","r","g","s">>
S_size == <<"s","i","z","e">>
S_audio == <<"a","u","d","i","o">>
S_video == <<"v","i","d","e","o">>
S_image == <<"i","m","a","g","e">>
S_connect == <<"c","o","n","n","e","c","t">>
S_ready == <<"r","e","a","d","y">>
S_error == <<"e","r","r","o","r">>
S_disconnect == <<"d","i","s","c","o","n","n","e","c","t">>
S_sync == <<"s","y","n","c">>
S_image_png == <<"i","m","a","g","e","/","p","n","g">>
S_image_jpeg == <<"i","m","a","g","e","/","j","p","e","g">>
S_image_webp == <<"i","m","a","g","e","/","w","e","b","p">>
S_rdp == <<"r","d","p">>
S_vnc == <<"v","n","c">>
S_localhost == <<"l","o","c","a","l","h","o","s","t">>
S_any == <<"a","n","y">>
S_true == <<"t","r","u","e">>
S_display_update == <<"d","i","s","p","l","a","y","-","u","p","d","a","t","e">>
S_cockpit_guacamole == <<"c","o","c","k","p","i","t","-","g","u","a","c","a","m","o","l","e">>
S_VERSION_ == <<"V","E","R","S","I","O","N","_">>
S_VERSION_1_5_0 == <<"V","E","R","S","I","O","N","_","1","_","5","_","0">>
S_bogus == <<"b","o","g","u","s">>
S_key == <<"k","e","y">>
S_denied == <<"d","e","n","i","e","d">>
S_Handshake_error == <<"H","a","n","d","s","h","a","k","e"," ","e","r","r","o","r">>
S_Server_timeout_ == <<"S","e","r","v","e","r"," ","t","i","m","e","o","u","t",".">>
S_Manually_closed_ == <<"M","a","n","u","a","l","l","y"," ","c","l","o","s","e","d",".">>
S_Connection_closed__ == <<"C","o","n","n","e","c","t","i","o","n"," ","c","l","o","s","e","d",":"," ">>
S_disconnected == <<"d","i","s","c","o","n","n","e","c","t","e","d">>
S_example == <<"e","x","a","m","p","l","e">>
S_rdpuser == <<"r","d","p","u","s","e","r">>
S_hostname == <<"h","o","s","t","n","a","m","e">>
S_port == <<"p","o","r","t">>
S_domain == <<"d","o","m","a","i","n">>
S_username == <<"u","s","e","r","n","a","m","e">>
S_password == <<"p","a","s","s","w","o","r","d">>
S_width == <<"w","i","d","t","h">>
S_height == <<"h","e","i","g","h","t">>
S_dpi == <<"d","p","i">>
S_color_depth == <<"c","o","l","o","r","-","d","e","p","t","h">>
S_security == <<"s","e","c","u","r","i","t","y">>
S_ignore_cert == <<"i","g","n","o","r","e","-","c","e","r","t">>
S_client_name == <<"c","l","i","e","n","t","-","n","a","m","e">>
S_enable_font_smoothing == <<"e","n","a","b","l","e","-","f","o","n","t","-","s","m","o","o","t","h","i","n","g">>
S_resize_method == <<"r","e","s","i","z","e","-","m","e","t","h","o","d">>

\* parameter names that paramMap maps to the empty string
EmptyParamNames ==
    {
      <<"i","n","i","t","i","a","l","-","p","r","o","g","r","a","m">>,
      <<"d","i","s","a","b","l","e","-","a","u","d","i","o">>,
      <<"e","n","a","b","l","e","-","p","r","i","n","t","i","n","g">>,
      <<"p","r","i","n","t","e","r","-","n","a","m","e">>,
      <<"e","n","a","b","l","e","-","d","r","i","v","e">>,
      <<"d","r","i","v","e","-","n","a","m","e">>,
      <<"d","r","i","v","e","-","p","a","t","h">>,
      <<"c","r","e","a","t","e","-","d","r","i","v","e","-","p","a","t","h">>,
      <<"d","i","s","a","b","l","e","-","d","o","w","n","l","o","a","d">>,
      <<"d","i","s","a","b","l","e","-","u","p","l","o","a","d">>,
      <<"c","o","n","s","o","l","e">>,
      <<"c","o","n","s","o","l","e","-","a","u","d","i","o">>,
      <<"s","e","r","v","e","r","-","l","a","y","o","u","t">>,
      <<"d","i","s","a","b","l","e","-","a","u","t","h">>,
      <<"r","e","m","o","t","e","-","a","p","p">>,
      <<"r","e","m","o","t","e","-","a","p","p","-","d","i","r">>,
      <<"r","e","m","o","t","e","-","a","p","p","-","a","r","g","s">>,
      <<"s","t","a","t","i","c","-","c","h","a","n","n","e","l","s">>,
      <<"e","n","a","b","l","e","-","w","a","l","l","p","a","p","e","r">>,
      <<"e","n","a","b","l","e","-","t","h","e","m","i","n","g">>,
      <<"e","n","a","b","l","e","-","f","u","l","l","-","w","i","n","d","o","w","-","d","r","a","g">>,
      <<"e","n","a","b","l","e","-","d","e","s","k","t","o","p","-","c","o","m","p","o","s","i","t","i","o","n">>,
      <<"e","n","a","b","l","e","-","m","e","n","u","-","a","n","i","m","a","t","i","o","n","s">>,
      <<"d","i","s","a","b","l","e","-","b","i","t","m","a","p","-","c","a","c","h","i","n","g">>,
      <<"d","i","s","a","b","l","e","-","o","f","f","s","c","r","e","e","n","-","c","a","c","h","i","n","g">>,
      <<"d","i","s","a","b","l","e","-","g","l","y","p","h","-","c","a","c","h","i","n","g">>,
      <<"p","r","e","c","o","n","n","e","c","t","i","o","n","-","i","d">>,
      <<"p","r","e","c","o","n","n","e","c","t","i","o","n","-","b","l","o","b">>,
      <<"t","i","m","e","z","o","n","e">>,
      <<"e","n","a","b","l","e","-","s","f","t","p">>,
      <<"s","f","t","p","-","h","o","s","t","n","a","m","e">>,
      <<"s","f","t","p","-","h","o","s","t","-","k","e","y">>,
      <<"s","f","t","p","-","p","o","r","t">>,
      <<"s","f","t","p","-","u","s","e","r","n","a","m","e">>,
      <<"s","f","t","p","-","p","a","s","s","w","o","r","d">>,
      <<"s","f","t","p","-","p","r","i","v","a","t","e","-","k","e","y">>,
      <<"s","f","t","p","-","p","a","s","s","p","h","r","a","s","e">>,
      <<"s","f","t","p","-","d","i","r","e","c","t","o","r","y">>,
      <<"s","f","t","p","-","r","o","o","t","-","d","i","r","e","c","t","o","r","y">>,
      <<"s","f","t","p","-","s","e","r","v","e","r","-","a","l","i","v","e","-","i","n","t","e","r","v","a","l">>,
      <<"r","e","c","o","r","d","i","n","g","-","p","a","t","h">>,
      <<"r","e","c","o","r","d","i","n","g","-","n","a","m","e">>,
      <<"r","e","c","o","r","d","i","n","g","-","e","x","c","l","u","d","e","-","o","u","t","p","u","t">>,
      <<"r","e","c","o","r","d","i","n","g","-","e","x","c","l","u","d","e","-","m","o","u","s","e">>,
      <<"r","e","c","o","r","d","i","n","g","-","e","x","c","l","u","d","e","-","t","o","u","c","h">>,
      <<"r","e","c","o","r","d","i","n","g","-","i","n","c","l","u","d","e","-","k","e","y","s">>,
      <<"c","r","e","a","t","e","-","r","e","c","o","r","d","i","n","g","-","p","a","t","h">>,
      <<"e","n","a","b","l","e","-","a","u","d","i","o","-","i","n","p","u","t">>,
      <<"e","n","a","b","l","e","-","t","o","u","c","h">>,
      <<"r","e","a","d","-","o","n","l","y">>,
      <<"g","a","t","e","w","a","y","-","h","o","s","t","n","a","m","e">>,
      <<"g","a","t","e","w","a","y","-","p","o","r","t">>,
      <<"g","a","t","e","w","a","y","-","d","o","m","a","i","n">>,
      <<"g","a","t","e","w","a","y","-","u","s","e","r","n","a","m","e">>,
      <<"g","a","t","e","w","a","y","-","p","a","s","s","w","o","r","d">>,
      <<"l","o","a","d","-","b","a","l","a","n","c","e","-","i","n","f","o">>,
      <<"d","i","s","a","b","l","e","-","c","o","p","y">>,
      <<"d","i","s","a","b","l","e","-","p","a","s","t","e">>,
      <<"f","o","r","c","e","-","l","o","s","s","l","e","s","s">>,
      <<"n","o","r","m","a","l","i","z","e","-","c","l","i","p","b","o","a","r","d">>,
      <<"t","i","m","e","o","u","t">>
    }

\* ------------------------------------------------------- library constants
\* Guacamole.Status.Code
SUCCESS == 0
SERVER_ERROR == 512
UPSTREAM_TIMEOUT == 514
\* Guacamole.Tunnel timer defaults, in ticks (1500 ms and 15000 ms in the
\* library: the receive timeout is the longer one)
unstableThreshold == 2
receiveTimeout == 3

\* Guacamole.Status: a code and a message
Status(code, message) == [code |-> code, message |-> message]

\* Guacamole.Status.isError
isError(status) == status.code < 0 \/ status.code > 255

\* -------------------------------------------------- JavaScript conversions
Digits == <<"0","1","2","3","4","5","6","7","8","9">>

IsDigit(c) == \E d \in 1..10 : Digits[d] = c

DigitVal(c) == (CHOOSE d \in 1..10 : Digits[d] = c) - 1

\* decimal text of a non-negative integer (Number to String)
RECURSIVE NumberToString(_)
NumberToString(n) ==
    IF n < 10 THEN <<Digits[n + 1]>>
    ELSE NumberToString(n \div 10) \o <<Digits[(n % 10) + 1]>>

\* value of the digits of s, read left to right
RECURSIVE DigitsValue(_, _)
DigitsValue(s, acc) ==
    IF s = <<>> \/ ~IsDigit(Head(s)) THEN acc
    ELSE DigitsValue(Tail(s), acc * 10 + DigitVal(Head(s)))

RECURSIVE SkipSpaces(_)
SkipSpaces(s) ==
    IF s # <<>> /\ Head(s) = " " THEN SkipSpaces(Tail(s)) ELSE s

\* parseInt(x) of an optional string (<<>> is undefined, <<s>> the string s):
\* <<>> is NaN, <<n>> the integer n. Leading blanks, one sign, then the
\* leading decimal digits; anything after them is ignored.
parseInt(x) ==
    IF x = <<>> THEN <<>>
    ELSE LET body == SkipSpaces(x[1])
             signed == body # <<>> /\ Head(body) \in {"-", "+"}
             digits == IF signed THEN Tail(body) ELSE body
         IN  IF digits = <<>> \/ ~IsDigit(Head(digits)) THEN <<>>
             ELSE IF signed /\ Head(body) = "-"
                  THEN <<0 - DigitsValue(digits, 0)>>
                  ELSE <<DigitsValue(digits, 0)>>

\* params[i] of a JavaScript array, i counted from 0: <<>> when undefined
At(params, i) == IF i + 1 <= Len(params) THEN <<params[i + 1]>> ELSE <<>>

\* x || d for an optional string x: undefined and '' are falsy
OrStr(x, d) == IF x = <<>> \/ x[1] = <<>> THEN d ELSE x[1]

\* x || d for an optional number x: undefined, NaN and 0 are falsy
OrNum(x, d) == IF x = <<>> \/ x[1] = 0 THEN d ELSE x[1]

\* s.startsWith(prefix)
startsWith(s, prefix) ==
    Len(s) >= Len(prefix) /\ SubSeq(s, 1, Len(prefix)) = prefix

\* the code units of a string that are halves of a surrogate pair: a
\* character outside the Basic Multilingual Plane is a high one followed by
\* a low one
HighSurrogates == {"uD83D"}
LowSurrogates == {"uDE00"}

\* the number of bytes of a string in UTF-8, for strings of ASCII characters
\* and surrogate pairs (four bytes a pair)
Utf8Length(value) ==
    Len(value)
        + Cardinality({i \in DOMAIN value :
                          value[i] \in HighSurrogates \cup LowSurrogates})

\* formatInstruction with the length of each element counted in bytes
RECURSIVE formatElements_ByteLength(_, _)
formatElements_ByteLength(elements, i) ==
    IF i > Len(elements) THEN <<>>
    ELSE (IF i > 1 THEN <<",">> ELSE <<>>)
         \o NumberToString(Utf8Length(elements[i])) \o <<".">> \o elements[i]
         \o formatElements_ByteLength(elements, i + 1)

\* formatInstruction: each element as <length>.<value>, joined by ",",
\* ended by ";"
RECURSIVE formatElements(_, _)
formatElements(elements, i) ==
    IF i > Len(elements) THEN <<>>
    ELSE (IF i > 1 THEN <<",">> ELSE <<>>)
         \o NumberToString(Len(elements[i])) \o <<".">> \o elements[i]
         \o formatElements(elements, i + 1)

formatInstruction(elements) == formatElements(elements, 1) \o <<";">>

\* --------------------------------------------------------------- the state
VARIABLES
    state,               \* tunnel.state
    uuid,                \* tunnel.uuid: <<>> is null, <<u>> the identifier u
    handshakeComplete,   \* "ready" has been received
    receiveTimeoutId,    \* id of the receive timer, 0 is null
    unstableTimeoutId,   \* id of the unstable timer, 0 is null
    channel,             \* the tunnel's cockpit channel, 0 is null
    connectionSettings,  \* the settings given to setConnectionSettings()
    chans,               \* each cockpit channel: "none", "open" or "closed"
    timers,              \* pending setTimeout timers: [id, kind, left]
    receiving,           \* channel whose message listener is running, or 0
    remaining,           \* instructions the parser still holds of the delivery
    calls,               \* consumer callbacks made by the last handler
    sent,                \* channel.send calls made by the last handler
    event,               \* the handler that ran last, and its input
    connects,            \* connect() calls so far
    idle,                \* ticks since the last inbound delivery, capped
    nError,              \* onerror calls since the last connect()
    nClosed,             \* onstatechange(CLOSED) calls since that connect()
    closeCalls,          \* channel.close() calls by the tunnel, per channel
    closeStatus,         \* status of the closure since then: <<>>, <<status>>
    errorSeen,           \* an "error" arrived before "ready" since connect()
    timedOut,            \* since connect(), the handshake completed and the
                         \* receive timer then closed the tunnel
    parser,              \* the tunnel's Guacamole.Parser: <<>> is null
    thrown,              \* the last handler ended by an uncaught exception
    inbound,             \* text guacd has written that is not yet delivered
    fed,                 \* text given to the parser since connect()
    processed,           \* instructions the parser has emitted since connect()
    script,              \* the instructions guacd's text was encoded from
    install,             \* the installServicePackages call and what it owns
    transactions,        \* the runTransaction calls made so far, in order
    pkEvent,             \* the PackageKit step that ran last, and its input
    iniContents,         \* the text of the ini file being edited
    iniEvent             \* the ini function that ran last, and its input

vars == <<state, uuid, handshakeComplete, receiveTimeoutId, unstableTimeoutId,
          channel, connectionSettings, chans, timers, receiving, remaining,
          calls, sent, event, connects, idle, nError, nClosed, closeCalls,
          closeStatus, errorSeen, timedOut, parser, thrown, inbound, fed,
          processed, script, install, transactions, pkEvent, iniContents,
          iniEvent>>

\* what belongs to the tunnel, to the package installation, to the ini file
tunnelVars ==
    <<state, uuid, handshakeComplete, receiveTimeoutId, unstableTimeoutId,
      channel, connectionSettings, chans, timers, receiving, remaining,
      calls, sent, event, connects, idle, nError, nClosed, closeCalls,
      closeStatus, errorSeen, timedOut, parser, thrown, inbound, fed,
      processed, script>>

installVars == <<install, transactions, pkEvent>>

iniVars == <<iniContents, iniEvent>>

Channels == 1..MaxConnects

\* the tunnel and what it owns or reaches, as one value the handlers
\* transform; steps is what closeTunnel does during the handler, in order
Self ==
    [state |-> state, uuid |-> uuid, handshakeComplete |-> handshakeComplete,
     receiveTimeoutId |-> receiveTimeoutId,
     unstableTimeoutId |-> unstableTimeoutId, channel |-> channel,
     connectionSettings |-> connectionSettings, chans |-> chans,
     timers |-> timers, calls |-> <<>>, sent |-> <<>>, nError |-> nError,
     nClosed |-> nClosed, closeCalls |-> closeCalls,
     closeStatus |-> closeStatus, parser |-> parser, thrown |-> FALSE,
     steps |-> <<>>, inbound |-> inbound, fed |-> fed,
     processed |-> processed, script |-> script]

Commit(t) ==
    /\ state' = t.state
    /\ uuid' = t.uuid
    /\ handshakeComplete' = t.handshakeComplete
    /\ receiveTimeoutId' = t.receiveTimeoutId
    /\ unstableTimeoutId' = t.unstableTimeoutId
    /\ channel' = t.channel
    /\ connectionSettings' = t.connectionSettings
    /\ chans' = t.chans
    /\ timers' = t.timers
    /\ calls' = t.calls
    /\ sent' = t.sent
    /\ nError' = t.nError
    /\ nClosed' = t.nClosed
    /\ closeCalls' = t.closeCalls
    /\ closeStatus' = t.closeStatus
    /\ parser' = t.parser
    /\ thrown' = t.thrown
    /\ inbound' = t.inbound
    /\ fed' = t.fed
    /\ processed' = t.processed
    /\ script' = t.script

\* one consumer callback, as the consumer sees it
Call(cb, st, code, text, params) ==
    [cb |-> cb, state |-> st, code |-> code, text |-> text, params |-> params]

\* ----------------------------------------------------- Guacamole.Tunnel
\* Guacamole.Tunnel.setState: notifies onstatechange only on a change
setState(t, s) ==
    IF s # t.state
    THEN [t EXCEPT !.state = s,
                   !.calls = Append(@, Call("onstatechange", s, 0, <<>>, <<>>)),
                   !.nClosed = IF s = "CLOSED" THEN @ + 1 ELSE @]
    ELSE t

\* Guacamole.Tunnel.setUUID
setUUID(t, u) ==
    [t EXCEPT !.uuid = <<u>>,
              !.calls = Append(@, Call("onuuid", t.state, 0, u, <<>>))]

\* Guacamole.Tunnel.isConnected
isConnected(t) == t.state \in {"OPEN", "UNSTABLE"}

\* ------------------------------------------------------------- timers
\* the id setTimeout returns: one no pending timer and no variable holds
FreshId(t) ==
    LET used == {x.id : x \in t.timers}
                \cup {t.receiveTimeoutId, t.unstableTimeoutId}
    IN  CHOOSE i \in 1..(Cardinality(used) + 1) :
            i \notin used /\ \A j \in 1..(i - 1) : j \in used

setTimeout(t, kind, delay) ==
    [t EXCEPT !.timers = @ \cup {[id |-> FreshId(t), kind |-> kind,
                                  left |-> delay]}]

clearTimeout(t, id) ==
    [t EXCEPT !.timers = {x \in @ : x.id # id}]

\* ------------------------------------------------------- CockpitTunnel
\* sendRaw: writes only through a channel that exists and is valid
sendRaw(t, data) ==
    IF t.channel # 0 /\ t.chans[t.channel] = "open"
    THEN [t EXCEPT !.sent = Append(@, data)]
    ELSE t

\* resetTimers that forgets the hard receive timeout
resetTimers_NoReceiveTimer(t) ==
    LET t1 == IF t.receiveTimeoutId # 0
              THEN clearTimeout(t, t.receiveTimeoutId) ELSE t
        t2 == IF t1.unstableTimeoutId # 0
              THEN clearTimeout(t1, t1.unstableTimeoutId) ELSE t1
        t3 == IF t2.state = "UNSTABLE" THEN setState(t2, "OPEN") ELSE t2
    IN  IF isConnected(t3)
        THEN [setTimeout(t3, "unstable", unstableThreshold)
                 EXCEPT !.unstableTimeoutId = FreshId(t3)]
        ELSE t3

\* resetTimers that arms new timers without cancelling the pending ones
resetTimers_NoCancel(t) ==
    LET t3 == IF t.state = "UNSTABLE" THEN setState(t, "OPEN") ELSE t
        t4 == IF isConnected(t3)
              THEN [setTimeout(t3, "unstable", unstableThreshold)
                       EXCEPT !.unstableTimeoutId = FreshId(t3)]
              ELSE t3
    IN  IF isConnected(t4)
        THEN [setTimeout(t4, "receive", receiveTimeout)
                 EXCEPT !.receiveTimeoutId = FreshId(t4)]
        ELSE t4

\* resetTimers: cancel both timers, leave UNSTABLE, arm both again while
\* connected
resetTimers(t) ==
    LET t1 == IF t.receiveTimeoutId # 0
              THEN clearTimeout(t, t.receiveTimeoutId) ELSE t
        t2 == IF t1.unstableTimeoutId # 0
              THEN clearTimeout(t1, t1.unstableTimeoutId) ELSE t1
        t3 == IF t2.state = "UNSTABLE" THEN setState(t2, "OPEN") ELSE t2
        t4 == IF isConnected(t3)
              THEN [setTimeout(t3, "unstable", unstableThreshold)
                       EXCEPT !.unstableTimeoutId = FreshId(t3)]
              ELSE t3
        t5 == IF isConnected(t4)
              THEN [setTimeout(t4, "receive", receiveTimeout)
                       EXCEPT !.receiveTimeoutId = FreshId(t4)]
              ELSE t4
    IN  t5

\* clearTimers
clearTimers(t) ==
    LET t1 == IF t.receiveTimeoutId # 0
              THEN clearTimeout(t, t.receiveTimeoutId) ELSE t
        t2 == IF t1.unstableTimeoutId # 0
              THEN clearTimeout(t1, t1.unstableTimeoutId) ELSE t1
    IN  [t2 EXCEPT !.receiveTimeoutId = 0, !.unstableTimeoutId = 0]

\* the consumer's tunnel.onerror
onerror(t, status) ==
    [t EXCEPT !.calls = Append(@, Call("onerror", t.state, status.code,
                                       status.message, <<>>)),
              !.nError = @ + 1]

RECURSIVE closeTunnel(_, _)

\* closeTunnel is about to take the step named: the state it finds
Step(t, name) ==
    [t EXCEPT !.steps = Append(@,
        [step |-> name, state |-> t.state, pending |-> Cardinality(t.timers),
         open |-> t.channel # 0 /\ t.chans[t.channel] = "open"])]

\* a "close" listener that reports every closure as a success
closeListener_NoProblemCheck(t, problem) ==
    closeTunnel(t, Status(SUCCESS, <<>>))

\* the "close" listener connect() puts on its channel; problem is
\* options.problem || options.reason: <<>> when neither is given
closeListener(t, problem) ==
    IF OrStr(problem, <<>>) # <<>> /\ t.state # "CLOSED"
    THEN closeTunnel(t, Status(SERVER_ERROR,
                               S_Connection_closed__ \o problem[1]))
    ELSE closeTunnel(t, Status(SUCCESS, <<>>))

\* cockpit's channel.close(): a channel that is still open becomes invalid
\* and dispatches "close", with no problem, to its listeners before returning
channelClose(t, c) ==
    LET t1 == [t EXCEPT !.closeCalls[c] = @ + 1]
    IN  IF t1.chans[c] = "open"
        THEN closeListener([t1 EXCEPT !.chans[c] = "closed"], <<>>)
        ELSE t1

\* closeTunnel
closeTunnel(t, status) ==
    LET t1 == clearTimers(Step(t, "clearTimers"))
    IN  IF t1.state = "CLOSED" THEN t1
        ELSE LET t2 == IF isError(status)
                       THEN onerror(Step(t1, "onerror"), status) ELSE t1
                 t3 == [setState(Step(t2, "setState"), "CLOSED")
                           EXCEPT !.closeStatus = <<status>>]
             IN  IF t3.channel # 0
                 THEN [channelClose(Step(t3, "channel.close"), t3.channel)
                          EXCEPT !.channel = 0]
                 ELSE t3

\* the properties paramMap, an object literal, inherits from
\* Object.prototype: paramMap[name] is not undefined for these names either
S_constructor == <<"c", "o", "n", "s", "t", "r", "u", "c", "t", "o", "r">>
S_Object == <<"O", "b", "j", "e", "c", "t">>
S___proto__ == <<"_", "_", "p", "r", "o", "t", "o", "_", "_">>
S_hasOwnProperty == <<"h", "a", "s", "O", "w", "n", "P", "r", "o", "p", "e", "r", "t", "y">>
S_isPrototypeOf == <<"i", "s", "P", "r", "o", "t", "o", "t", "y", "p", "e", "O", "f">>
S_propertyIsEnumerable == <<"p", "r", "o", "p", "e", "r", "t", "y", "I", "s", "E", "n", "u", "m", "e", "r", "a", "b", "l", "e">>
S_toLocaleString == <<"t", "o", "L", "o", "c", "a", "l", "e", "S", "t", "r", "i", "n", "g">>
S_toString == <<"t", "o", "S", "t", "r", "i", "n", "g">>
S_valueOf == <<"v", "a", "l", "u", "e", "O", "f">>
S___defineGetter__ == <<"_", "_", "d", "e", "f", "i", "n", "e", "G", "e", "t", "t", "e", "r", "_", "_">>
S___defineSetter__ == <<"_", "_", "d", "e", "f", "i", "n", "e", "S", "e", "t", "t", "e", "r", "_", "_">>
S___lookupGetter__ == <<"_", "_", "l", "o", "o", "k", "u", "p", "G", "e", "t", "t", "e", "r", "_", "_">>
S___lookupSetter__ == <<"_", "_", "l", "o", "o", "k", "u", "p", "S", "e", "t", "t", "e", "r", "_", "_">>

ObjectPrototypeFunctions ==
    {S_hasOwnProperty,
     S_isPrototypeOf,
     S_propertyIsEnumerable,
     S_toLocaleString,
     S_toString,
     S_valueOf,
     S___defineGetter__,
     S___defineSetter__,
     S___lookupGetter__,
     S___lookupSetter__}

\* String(f) of a built-in function f is "function <name>() { [native code] }"
\* (the blank space inside the braces differs between engines), String of
\* Object.prototype is "[object Object]"
S_function_ == <<"f", "u", "n", "c", "t", "i", "o", "n", " ">>
S_native_code == <<"(", ")", " ", "{", " ", "[", "n", "a", "t", "i", "v", "e", " ", "c", "o", "d", "e", "]", " ", "}">>
S_object_Object == <<"[", "o", "b", "j", "e", "c", "t", " ", "O", "b", "j", "e", "c", "t", "]">>

\* the keys the object literal paramMap lists itself
MappedNames ==
    {S_hostname, S_port, S_domain, S_username, S_password, S_width, S_height,
     S_dpi, S_color_depth, S_security, S_ignore_cert, S_client_name,
     S_enable_font_smoothing, S_resize_method} \cup EmptyParamNames

\* paramMap[argName] of sendHandshakeReply, as formatInstruction's
\* String(value) reads it: <<>> when paramMap[argName] is undefined
paramMap(settings, width, height, dpi, argName) ==
    CASE argName = S_hostname -> <<OrStr(settings.hostname, S_localhost)>>
      [] argName = S_port     -> <<NumberToString(OrNum(settings.port, 3389))>>
      [] argName = S_domain   -> <<OrStr(settings.domain, <<>>)>>
      [] argName = S_username -> <<OrStr(settings.username, <<>>)>>
      [] argName = S_password -> <<OrStr(settings.password, <<>>)>>
      [] argName = S_width    -> <<NumberToString(width)>>
      [] argName = S_height   -> <<NumberToString(height)>>
      [] argName = S_dpi      -> <<NumberToString(dpi)>>
      [] argName = S_color_depth -> <<OrStr(settings.colorDepth, <<>>)>>
      [] argName = S_security -> <<OrStr(settings.security, S_any)>>
      [] argName = S_ignore_cert ->
            <<IF settings.ignoreCert # <<FALSE>> THEN S_true ELSE <<>> >>
      [] argName = S_client_name -> <<S_cockpit_guacamole>>
      [] argName = S_enable_font_smoothing ->
            <<IF settings.enableFontSmoothing # <<FALSE>>
              THEN S_true ELSE <<>> >>
      [] argName = S_resize_method ->
            <<OrStr(settings.resizeMethod, S_display_update)>>
      [] argName \in EmptyParamNames -> << <<>> >>
      [] argName = S_constructor ->
            <<S_function_ \o S_Object \o S_native_code>>
      [] argName \in ObjectPrototypeFunctions ->
            <<S_function_ \o argName \o S_native_code>>
      [] argName = S___proto__ -> <<S_object_Object>>
      [] OTHER -> <<>>

\* connectArgs without the echo of the protocol version name
connectArgs_NoVersionEcho(settings, width, height, dpi, serverArgNames) ==
    [i \in 1..Len(serverArgNames) |->
        LET mapped == paramMap(settings, width, height, dpi, serverArgNames[i])
        IN  IF mapped # <<>> THEN mapped[1] ELSE <<>>]

\* the values of `connect`: one for each name of the server's "args"
connectArgs(settings, width, height, dpi, serverArgNames) ==
    [i \in 1..Len(serverArgNames) |->
        LET argName == serverArgNames[i]
            mapped == paramMap(settings, width, height, dpi, argName)
        IN  IF startsWith(argName, S_VERSION_) THEN argName
            ELSE IF mapped # <<>> THEN mapped[1] ELSE <<>>]

\* sendHandshakeReply announcing video before audio
sendHandshakeReply_VideoBeforeAudio(t, serverArgNames) ==
    LET settings == t.connectionSettings
        width  == OrNum(settings.width, 1024)
        height == OrNum(settings.height, 768)
        dpi    == OrNum(settings.dpi, 96)
        t1 == sendRaw(t, formatInstruction(<<S_size, NumberToString(width),
                                             NumberToString(height), NumberToString(dpi)>>))
        t2 == sendRaw(t1, formatInstruction(<<S_video>>))
        t3 == sendRaw(t2, formatInstruction(<<S_audio>>))
        t4 == sendRaw(t3, formatInstruction(<<S_image, S_image_png,
                                              S_image_jpeg, S_image_webp>>))
    IN  sendRaw(t4, formatInstruction(
            <<S_connect>> \o connectArgs(settings, width, height, dpi,
                                         serverArgNames)))

\* sendHandshakeReply: size, audio, video, image, then connect with one
\* value for each name of the server's "args"
sendHandshakeReply(t, serverArgNames) ==
    LET settings == t.connectionSettings
        width  == OrNum(settings.width, 1024)
        height == OrNum(settings.height, 768)
        dpi    == OrNum(settings.dpi, 96)
        t1 == sendRaw(t, formatInstruction(<<S_size, NumberToString(width),
                                             NumberToString(height), NumberToString(dpi)>>))
        t2 == sendRaw(t1, formatInstruction(<<S_audio>>))
        t3 == sendRaw(t2, formatInstruction(<<S_video>>))
        t4 == sendRaw(t3, formatInstruction(<<S_image, S_image_png,
                                              S_image_jpeg, S_image_webp>>))
    IN  sendRaw(t4, formatInstruction(
            <<S_connect>> \o connectArgs(settings, width, height, dpi,
                                         serverArgNames)))

\* disconnect
disconnect(t) ==
    LET t1 == IF isConnected(t)
              THEN sendRaw(t, formatInstruction(<<S_disconnect>>)) ELSE t
    IN  closeTunnel(t1, Status(SUCCESS, S_Manually_closed_))

\* the consumer's tunnel.oninstruction: it takes the instruction and may
\* call back into the tunnel before it returns
oninstruction(t, opcode, params, react) ==
    LET t1 == [t EXCEPT !.calls = Append(@, Call("oninstruction", t.state, 0,
                                                 opcode, params))]
    IN  IF react = "disconnect" THEN disconnect(t1) ELSE t1

\* processInstruction handing an opcode the handshake does not know to the
\* sink
processInstruction_ForwardsUnknown(t, opcode, params, react) ==
    IF ~t.handshakeComplete
    THEN IF opcode = S_args THEN sendHandshakeReply(t, params)
         ELSE IF opcode = S_ready
         THEN LET t1 == [t EXCEPT !.handshakeComplete = TRUE]
                  t2 == IF Len(params) > 0 THEN setUUID(t1, params[1]) ELSE t1
              IN  resetTimers(setState(t2, "OPEN"))
         ELSE IF opcode = S_error
         THEN LET code == OrNum(parseInt(At(params, 1)), SERVER_ERROR)
              IN  closeTunnel(t, Status(code,
                                  OrStr(At(params, 0), S_Handshake_error)))
         ELSE oninstruction(t, opcode, params, react)
    ELSE oninstruction(t, opcode, params, react)

\* processInstruction whose `ready` branch opens the tunnel without
\* starting the timers
processInstruction_ReadyNoTimers(t, opcode, params, react) ==
    IF ~t.handshakeComplete
    THEN IF opcode = S_args THEN sendHandshakeReply(t, params)
         ELSE IF opcode = S_ready
         THEN LET t1 == [t EXCEPT !.handshakeComplete = TRUE]
                  t2 == IF Len(params) > 0 THEN setUUID(t1, params[1]) ELSE t1
              IN  setState(t2, "OPEN")
         ELSE IF opcode = S_error
         THEN LET code == OrNum(parseInt(At(params, 1)), SERVER_ERROR)
              IN  closeTunnel(t, Status(code,
                                  OrStr(At(params, 0), S_Handshake_error)))
         ELSE t
    ELSE oninstruction(t, opcode, params, react)

\* processInstruction passing the handshake's `ready` on to the sink as well
processInstruction_ForwardsReady(t, opcode, params, react) ==
    IF ~t.handshakeComplete
    THEN IF opcode = S_args THEN sendHandshakeReply(t, params)
         ELSE IF opcode = S_ready
         THEN LET t1 == [t EXCEPT !.handshakeComplete = TRUE]
                  t2 == IF Len(params) > 0 THEN setUUID(t1, params[1]) ELSE t1
              IN  oninstruction(resetTimers(setState(t2, "OPEN")),
                                opcode, params, react)
         ELSE IF opcode = S_error
         THEN LET code == OrNum(parseInt(At(params, 1)), SERVER_ERROR)
              IN  closeTunnel(t, Status(code,
                                  OrStr(At(params, 0), S_Handshake_error)))
         ELSE t
    ELSE oninstruction(t, opcode, params, react)

\* processInstruction acting on `error` after the handshake as well
processInstruction_ErrorAlwaysCloses(t, opcode, params, react) ==
    IF opcode = S_error
    THEN LET code == OrNum(parseInt(At(params, 1)), SERVER_ERROR)
         IN  closeTunnel(t, Status(code,
                             OrStr(At(params, 0), S_Handshake_error)))
    ELSE IF ~t.handshakeComplete
    THEN IF opcode = S_args THEN sendHandshakeReply(t, params)
         ELSE IF opcode = S_ready
         THEN LET t1 == [t EXCEPT !.handshakeComplete = TRUE]
                  t2 == IF Len(params) > 0 THEN setUUID(t1, params[1]) ELSE t1
              IN  resetTimers(setState(t2, "OPEN"))
         ELSE t
    ELSE oninstruction(t, opcode, params, react)

\* processInstruction replying to the first `args` of a delivery only
processInstruction_OneShotReply(t, opcode, params, react) ==
    IF ~t.handshakeComplete
    THEN IF opcode = S_args
         THEN IF t.sent # <<>> THEN t ELSE sendHandshakeReply(t, params)
         ELSE IF opcode = S_ready
         THEN LET t1 == [t EXCEPT !.handshakeComplete = TRUE]
                  t2 == IF Len(params) > 0 THEN setUUID(t1, params[1]) ELSE t1
              IN  resetTimers(setState(t2, "OPEN"))
         ELSE IF opcode = S_error
         THEN LET code == OrNum(parseInt(At(params, 1)), SERVER_ERROR)
              IN  closeTunnel(t, Status(code,
                                  OrStr(At(params, 0), S_Handshake_error)))
         ELSE t
    ELSE oninstruction(t, opcode, params, react)

\* processInstruction
processInstruction(t, opcode, params, react) ==
    IF ~t.handshakeComplete
    THEN IF opcode = S_args THEN sendHandshakeReply(t, params)
         ELSE IF opcode = S_ready
         THEN LET t1 == [t EXCEPT !.handshakeComplete = TRUE]
                  t2 == IF Len(params) > 0 THEN setUUID(t1, params[1]) ELSE t1
              IN  resetTimers(setState(t2, "OPEN"))
         ELSE IF opcode = S_error
         THEN LET code == OrNum(parseInt(At(params, 1)), SERVER_ERROR)
              IN  closeTunnel(t, Status(code,
                                  OrStr(At(params, 0), S_Handshake_error)))
         ELSE t
    ELSE oninstruction(t, opcode, params, react)

\* a message listener that restarts the timers but does not go through
\* resetTimers' return from UNSTABLE
messageListener_NoRestore(t) ==
    IF t.handshakeComplete
    THEN LET t1 == clearTimers(t)
             t2 == IF isConnected(t1)
                   THEN [setTimeout(t1, "unstable", unstableThreshold)
                            EXCEPT !.unstableTimeoutId = FreshId(t1)]
                   ELSE t1
         IN  IF isConnected(t2)
             THEN [setTimeout(t2, "receive", receiveTimeout)
                      EXCEPT !.receiveTimeoutId = FreshId(t2)]
             ELSE t2
    ELSE t

\* a message listener that restarts the timers only to leave UNSTABLE
messageListener_OnlyWhenUnstable(t) ==
    IF t.handshakeComplete /\ t.state = "UNSTABLE" THEN resetTimers(t) ELSE t

\* the "message" listener connect() puts on its channel, up to the call of
\* parser.receive
messageListener(t) ==
    IF t.handshakeComplete THEN resetTimers(t) ELSE t

\* --------------------------------------------------- Guacamole.Parser
\* s.substring(a, b), positions counted from 0: both clamped to the string,
\* the smaller one first
substring(s, a, b) ==
    LET clamp(i) == IF i < 0 THEN 0 ELSE IF i > Len(s) THEN Len(s) ELSE i
        lo == IF clamp(a) <= clamp(b) THEN clamp(a) ELSE clamp(b)
        hi == IF clamp(a) <= clamp(b) THEN clamp(b) ELSE clamp(a)
    IN  SubSeq(s, lo + 1, hi)

\* s.indexOf(c, from), positions counted from 0: -1 when c is not found
indexOf(s, c, from) ==
    LET start == IF from < 0 THEN 0 ELSE from
        found == {i \in start..(Len(s) - 1) : s[i + 1] = c}
    IN  IF found = {} THEN -1
        ELSE CHOOSE i \in found : \A j \in found : i <= j

\* parser.oninstruction(opcode, element_buffer), which is processInstruction
emit(t, elements) ==
    LET t1 == [t EXCEPT !.processed = Append(@,
                   [opcode |-> Head(elements), params |-> Tail(elements),
                    forwarded |-> t.handshakeComplete])]
    IN  processInstruction(t1, Head(elements), Tail(elements), "none")

\* the parse loop of Guacamole.Parser.receive (guacamole-common-js 1.5.0);
\* thrown is set where it throws "Illegal terminator." or "Non-numeric
\* character in element length."
RECURSIVE parseLoop(_)
parseLoop(t) ==
    LET p == t.parser[1]
    IN  IF ~(p.element_end < Len(p.buffer)) THEN t
        ELSE
        LET waiting == p.element_end >= p.start_index
            element == substring(p.buffer, p.start_index, p.element_end)
            terminator ==
                substring(p.buffer, p.element_end, p.element_end + 1)
            pushed == Append(p.element_buffer, element)
        IN  IF waiting /\ terminator # <<";">> /\ terminator # <<",">>
            THEN [t EXCEPT !.parser = <<[p EXCEPT !.element_buffer = pushed]>>,
                           !.thrown = TRUE]
            ELSE
            LET tA == IF ~waiting THEN t
                      ELSE IF terminator = <<";">>
                      THEN [emit(t, pushed) EXCEPT !.parser =
                               <<[p EXCEPT !.element_buffer = <<>>,
                                           !.start_index = p.element_end + 1]>>]
                      ELSE [t EXCEPT !.parser =
                               <<[p EXCEPT !.element_buffer = pushed,
                                           !.start_index = p.element_end + 1]>>]
                pA == tA.parser[1]
                length_end == indexOf(pA.buffer, ".", pA.start_index)
                length == parseInt(<<substring(pA.buffer, pA.element_end + 1,
                                               length_end)>>)
            IN  IF length_end = -1
                THEN [tA EXCEPT !.parser =
                         <<[pA EXCEPT !.start_index = Len(pA.buffer)]>>]
                ELSE IF length = <<>> THEN [tA EXCEPT !.thrown = TRUE]
                ELSE parseLoop([tA EXCEPT !.parser =
                         <<[pA EXCEPT !.start_index = length_end + 1,
                                      !.element_end =
                                          length_end + 1 + length[1]]>>])

\* Guacamole.Parser.receive(packet): the consumed part of a buffer longer
\* than 4096 is cut off, the packet appended, the parse loop run
receive(t, packet) ==
    LET p == t.parser[1]
        cut == IF p.start_index > 4096 /\ p.element_end >= p.start_index
               THEN [p EXCEPT !.buffer = substring(@, p.start_index, Len(@)),
                              !.element_end = @ - p.start_index,
                              !.start_index = 0]
               ELSE p
    IN  parseLoop([t EXCEPT !.parser = <<[cut EXCEPT !.buffer = @ \o packet]>>,
                            !.fed = @ \o packet])

\* new Guacamole.Parser()
NewParser ==
    [buffer |-> <<>>, element_buffer |-> <<>>, element_end |-> -1,
     start_index |-> 0]

\* a message listener that decodes each message with a parser of its own
onMessage_ParserPerMessage(t, data) ==
    receive([messageListener(t) EXCEPT !.parser = <<NewParser>>], data)

\* the whole "message" listener connect() puts on its channel
onMessage(t, data) == receive(messageListener(t), data)

\* connect: a new parser, a fresh cockpit channel c, then "select"
connect(t, c) ==
    LET t1 == setState([t EXCEPT !.handshakeComplete = FALSE], "CONNECTING")
        t2 == [t1 EXCEPT !.parser = <<NewParser>>, !.channel = c,
                         !.chans[c] = "open"]
    IN  sendRaw(t2, formatInstruction(
            <<S_select, OrStr(t2.connectionSettings.protocol, S_rdp)>>))

\* sendMessage without its connection check
sendMessage_NoStateCheck(t, elements) ==
    IF Len(elements) = 0 THEN t
    ELSE sendRaw(t, formatInstruction(elements))

\* sendMessage counting what it writes as a sign of life
sendMessage_ResetsTimers(t, elements) ==
    IF ~isConnected(t) THEN t
    ELSE IF Len(elements) = 0 THEN t
    ELSE resetTimers(sendRaw(t, formatInstruction(elements)))

\* sendMessage
sendMessage(t, elements) ==
    IF ~isConnected(t) THEN t
    ELSE IF Len(elements) = 0 THEN t
    ELSE sendRaw(t, formatInstruction(elements))

\* the unstable timer's callback
unstableTimerCallback(t) == setState(t, "UNSTABLE")

\* the receive timer's callback
receiveTimerCallback(t) ==
    closeTunnel(t, Status(UPSTREAM_TIMEOUT, S_Server_timeout_))

\* -------------------------------------------------------------- the inputs
NoSettings ==
    [hostname |-> <<>>, port |-> <<>>, domain |-> <<>>, username |-> <<>>,
     password |-> <<>>, width |-> <<>>, height |-> <<>>, dpi |-> <<>>,
     colorDepth |-> <<>>, security |-> <<>>, ignoreCert |-> <<>>,
     enableFontSmoothing |-> <<>>, resizeMethod |-> <<>>, protocol |-> <<>>]

SomeSettings ==
    [NoSettings EXCEPT !.hostname = <<S_example>>, !.port = <<3390>>,
                       !.username = <<S_rdpuser>>, !.width = <<800>>,
                       !.height = <<600>>, !.ignoreCert = <<FALSE>>,
                       !.protocol = <<S_vnc>>]

SettingsChoices == {NoSettings, SomeSettings}

Instr(opcode, params) == [opcode |-> opcode, params |-> params]

\* the instructions guacd sends in the model
Instructions ==
    {Instr(S_args, <<S_hostname, S_port, S_width>>),
     Instr(S_args, <<S_VERSION_1_5_0, S_bogus, S_security>>),
     Instr(S_ready, <<>>),
     Instr(S_ready, <<<<"$", "7">>>>),
     Instr(S_error, <<>>),
     Instr(S_error, <<S_denied>>),
     Instr(S_error, <<S_denied, <<"0">>>>),
     Instr(S_error, <<S_denied, <<"5">>>>),
     Instr(S_error, <<S_denied, <<"7", "6", "9">>>>),
     Instr(S_error, <<<<>>, <<"x">>>>),
     Instr(S_sync, <<<<"1">>>>)}

\* what the consumer does inside oninstruction
Reactions == {"none", "disconnect"}

\* problem or reason of a channel's close event
Problems == {<<>>, <<S_disconnected>>}

\* argument lists the consumer passes to sendMessage
Messages == {<<>>, <<S_key, <<"1">>>>}

\* a handler that forwarded nothing to the instruction sink: for an
\* instruction, one processed by the handshake branch
NotForwarded(log) == \A i \in DOMAIN log : log[i].cb # "oninstruction"

\* afterReady: the instruction was decoded in the delivery whose `ready`
\* completed the handshake, after that `ready`
Event(op, opcode, params) ==
    [op |-> op, opcode |-> opcode, params |-> params, afterReady |-> FALSE]

\* the PackageKit workflow before installServicePackages() is called: no
\* D-Bus client, no transaction, nothing resolved, the promise not created
NoInstall ==
    [api |-> "none", serviceName |-> <<>>, pkClient |-> "none",
     opens |-> 0, closes |-> 0, packageNames |-> <<>>,
     installed |-> <<>>, available |-> <<>>, unavailable |-> <<>>,
     seenNames |-> {}, outcome |-> <<>>]

\* ------------------------------------------------------------------- Init
\* a constructed tunnel, its settings given, connect() not yet called.
\* Guacamole.Tunnel (guacamole-common-js 1.5) starts in CLOSED with no uuid;
\* the consumer has set onerror, onstatechange and oninstruction.
Init ==
    /\ state = "CLOSED"
    /\ uuid = <<>>
    /\ handshakeComplete = FALSE
    /\ receiveTimeoutId = 0
    /\ unstableTimeoutId = 0
    /\ channel = 0
    /\ connectionSettings \in SettingsChoices
    /\ chans = [c \in Channels |-> "none"]
    /\ timers = {}
    /\ receiving = 0
    /\ remaining = 0
    /\ calls = <<>>
    /\ sent = <<>>
    /\ event = Event("new", <<>>, <<>>)
    /\ connects = 0
    /\ idle = 0
    /\ nError = 0
    /\ nClosed = 0
    /\ closeCalls = [c \in Channels |-> 0]
    /\ closeStatus = <<>>
    /\ errorSeen = FALSE
    /\ timedOut = FALSE
    /\ parser = <<>>
    /\ thrown = FALSE
    /\ inbound = <<>>
    /\ fed = <<>>
    /\ processed = <<>>
    /\ script = <<>>
    /\ install = NoInstall
    /\ transactions = <<>>
    /\ pkEvent = [op |-> "new", tx |-> 0, signal |-> "", args |-> <<>>]
    /\ iniContents = <<>>
    /\ iniEvent = [op |-> "new", file |-> "", before |-> <<>>, value |-> 0]

\* ---------------------------------------------------------------- actions
\* the consumer calls connect(); the observer starts counting anew
Connect ==
    /\ receiving = 0
    /\ connects < MaxConnects
    /\ Commit(connect([Self EXCEPT !.nError = 0, !.nClosed = 0,
                                    !.closeStatus = <<>>], connects + 1))
    /\ connects' = connects + 1
    /\ event' = Event("connect", <<>>, <<>>)
    /\ errorSeen' = FALSE
    /\ timedOut' = FALSE
    /\ UNCHANGED <<receiving, remaining, idle>>
    /\ UNCHANGED <<installVars, iniVars>>

\* the consumer calls sendMessage(elements...)
SendMessage ==
    /\ receiving = 0
    /\ \E elements \in Messages :
        /\ Commit(sendMessage(Self, elements))
        /\ event' = Event("sendMessage", <<>>, elements)
    /\ UNCHANGED <<receiving, remaining, connects, idle, errorSeen, timedOut>>
    /\ UNCHANGED <<installVars, iniVars>>

\* the consumer calls disconnect()
Disconnect ==
    /\ receiving = 0
    /\ Commit(disconnect(Self))
    /\ event' = Event("disconnect", <<>>, <<>>)
    /\ UNCHANGED <<receiving, remaining, connects, idle, errorSeen, timedOut>>
    /\ UNCHANGED <<installVars, iniVars>>

\* a channel delivers data holding n complete instructions: its message
\* listener runs up to parser.receive
Message ==
    /\ receiving = 0
    /\ \E c \in Channels, n \in 0..MaxBatch :
        /\ chans[c] = "open"
        /\ Commit(messageListener(Self))
        /\ receiving' = IF n = 0 THEN 0 ELSE c
        /\ remaining' = n
    /\ idle' = 0
    /\ event' = Event("message", <<>>, <<>>)
    /\ UNCHANGED <<connects, errorSeen, timedOut>>
    /\ UNCHANGED <<installVars, iniVars>>

\* parser.receive hands the next instruction of the delivery to
\* processInstruction; the consumer reacts inside oninstruction, which is
\* called only once the handshake is complete
Instruction ==
    /\ receiving # 0
    /\ \E i \in Instructions,
          react \in IF handshakeComplete THEN Reactions ELSE {"none"} :
        /\ Commit(processInstruction(Self, i.opcode, i.params, react))
        /\ event' = [Event("instruction", i.opcode, i.params) EXCEPT
                         !.afterReady =
                             \/ event.op = "instruction" /\ event.afterReady
                             \/ /\ event.op = "instruction"
                                /\ event.opcode = S_ready
                                /\ NotForwarded(calls)]
        /\ errorSeen' = (errorSeen \/ (i.opcode = S_error /\ ~handshakeComplete))
    /\ remaining' = remaining - 1
    /\ receiving' = IF remaining = 1 THEN 0 ELSE receiving
    /\ UNCHANGED <<connects, idle, timedOut>>
    /\ UNCHANGED <<installVars, iniVars>>

\* the transport closes a channel: its close listener runs
ChannelClosed ==
    /\ receiving = 0
    /\ \E c \in Channels, problem \in Problems :
        /\ chans[c] = "open"
        /\ Commit(closeListener([Self EXCEPT !.chans[c] = "closed"], problem))
        /\ event' = Event("close", <<>>, problem)
    /\ UNCHANGED <<receiving, remaining, connects, idle, errorSeen, timedOut>>
    /\ UNCHANGED <<installVars, iniVars>>

\* the unstable timer fires
UnstableTimerFires ==
    /\ receiving = 0
    /\ \E x \in timers :
        /\ x.kind = "unstable"
        /\ x.left = 0
        /\ Commit(unstableTimerCallback([Self EXCEPT !.timers = @ \ {x}]))
    /\ event' = Event("unstableTimer", <<>>, <<>>)
    /\ UNCHANGED <<receiving, remaining, connects, idle, errorSeen, timedOut>>
    /\ UNCHANGED <<installVars, iniVars>>

\* the receive timer fires
ReceiveTimerFires ==
    /\ receiving = 0
    /\ \E x \in timers :
        /\ x.kind = "receive"
        /\ x.left = 0
        /\ Commit(receiveTimerCallback([Self EXCEPT !.timers = @ \ {x}]))
    /\ event' = Event("receiveTimer", <<>>, <<>>)
    /\ timedOut' = (timedOut \/ (/\ handshakeComplete
                                 /\ state # "CLOSED"
                                 /\ state' = "CLOSED"))
    /\ UNCHANGED <<receiving, remaining, connects, idle, errorSeen>>
    /\ UNCHANGED <<installVars, iniVars>>

\* one unit of time passes; a timer that is due fires before more time passes
Tick ==
    /\ receiving = 0
    /\ \A x \in timers : x.left > 0
    /\ timers' = {[x EXCEPT !.left = @ - 1] : x \in timers}
    /\ idle' = IF idle < MaxIdle THEN idle + 1 ELSE idle
    /\ calls' = <<>>
    /\ sent' = <<>>
    /\ thrown' = FALSE
    /\ event' = Event("tick", <<>>, <<>>)
    /\ UNCHANGED <<state, uuid, handshakeComplete, receiveTimeoutId,
                   unstableTimeoutId, channel, connectionSettings, chans,
                   receiving, remaining, connects, nError, nClosed,
                   closeCalls, closeStatus, errorSeen, timedOut, parser,
                   inbound, fed, processed, script>>
    /\ UNCHANGED <<installVars, iniVars>>

Next ==
    \/ Connect
    \/ SendMessage
    \/ Disconnect
    \/ Message
    \/ Instruction
    \/ ChannelClosed
    \/ UnstableTimerFires
    \/ ReceiveTimerFires
    \/ Tick

Spec == Init /\ [][Next]_vars

\* ------------------------------------------------------------- the claims
\* the last handler moved the tunnel to CLOSED
ClosedByLastHandler ==
    \E i \in DOMAIN calls :
        calls[i].cb = "onstatechange" /\ calls[i].state = "CLOSED"

\* the last handler processed an "error" instruction of the handshake
HandshakeErrorEvent ==
    /\ event.op = "instruction"
    /\ event.opcode = S_error
    /\ ~handshakeComplete

\* C1: after one connect(), once the tunnel state is CLOSED it never takes
\* another value, whatever is delivered or called afterwards.
C1_ClosedIsTerminal ==
    [][(connects = 1 /\ connects' = 1 /\ state = "CLOSED")
          => state' = "CLOSED"]_vars

\* C2: sendMessage() called while the state is CONNECTING or CLOSED makes no
\* channel.send call, for every argument list.
C2_NoWriteUnlessConnected ==
    [][(event'.op = "sendMessage" /\ state \in {"CONNECTING", "CLOSED"})
          => sent' = <<>>]_vars

\* C2 witness: sendMessage() with arguments was called while CONNECTING on a
\* valid channel, and nothing was written.
C2_Witness ==
    /\ event.op = "sendMessage"
    /\ event.params # <<>>
    /\ state = "CONNECTING"
    /\ channel # 0
    /\ chans[channel] = "open"
    /\ sent = <<>>

\* C3: an "error" instruction received before "ready" closes the tunnel with
\* the status code its second argument denotes, and with the generic
\* server-error code when that argument denotes no number.
C3_ErrorStatusIsDaemonCode ==
    (HandshakeErrorEvent /\ ClosedByLastHandler)
        => closeStatus[1].code =
              (IF parseInt(At(event.params, 1)) # <<>>
               THEN parseInt(At(event.params, 1))[1]
               ELSE SERVER_ERROR)

\* C4: after an "error" instruction received before "ready", no session
\* identifier is set and the tunnel is never OPEN, whatever follows.
C4_NoSessionAfterError ==
    (connects = 1 /\ errorSeen) => (uuid = <<>> /\ state # "OPEN")

\* the last handler ran on an error condition: a channel close with a
\* problem, an "error" instruction of the handshake, or the receive timeout
ErrorConditionEvent ==
    \/ event.op = "close" /\ OrStr(event.params, <<>>) # <<>>
    \/ HandshakeErrorEvent
    \/ event.op = "receiveTimer"

\* C5: every closure triggered by an error condition calls onerror with the
\* status code and message of the closure.
C5_ErrorClosureCallsOnError ==
    (ErrorConditionEvent /\ ClosedByLastHandler)
        => \E i \in DOMAIN calls :
              /\ calls[i].cb = "onerror"
              /\ calls[i].code = closeStatus[1].code
              /\ calls[i].text = closeStatus[1].message

\* C6: over the life of a tunnel connected once, onerror is called at most
\* once and the change to CLOSED is notified at most once.
C6_ClosureIsIdempotent ==
    connects <= 1 => (nError <= 1 /\ nClosed <= 1)

\* C7: once the state is CLOSED, oninstruction is never called again.
C7_NoSinkAfterClosed ==
    [][state = "CLOSED"
          => \A i \in DOMAIN calls' : calls'[i].cb # "oninstruction"]_vars

\* C8: after the handshake the tunnel does not stay connected for longer
\* than the receive timeout without an inbound delivery; the receive timer
\* closes it and calls onerror with UPSTREAM_TIMEOUT; after that closure no
\* state change or error is notified until connect() is called again.
C8_ReceiveTimeoutCloses ==
    /\ [](handshakeComplete /\ idle > receiveTimeout => state = "CLOSED")
    /\ [][event'.op = "receiveTimer"
            => /\ state' = "CLOSED"
               /\ \E i \in DOMAIN calls' :
                     /\ calls'[i].cb = "onerror"
                     /\ calls'[i].code = UPSTREAM_TIMEOUT]_vars
    /\ [][(timedOut /\ connects' = connects)
            => \A i \in DOMAIN calls' :
                  calls'[i].cb \notin {"onstatechange", "onerror"}]_vars

\* C8 witness: the handshake completed, no delivery came for the receive
\* timeout, and the receive timer has closed the tunnel.
C8_Witness ==
    /\ event.op = "receiveTimer"
    /\ handshakeComplete
    /\ timedOut
    /\ idle >= receiveTimeout
    /\ state = "CLOSED"
    /\ nError = 1

\* both timers are pending and have their full delay left
BothTimersRestarted ==
    /\ [id |-> unstableTimeoutId, kind |-> "unstable",
        left |-> unstableThreshold] \in timers
    /\ [id |-> receiveTimeoutId, kind |-> "receive",
        left |-> receiveTimeout] \in timers
    /\ Cardinality(timers) = 2

\* C9: after the handshake the tunnel does not stay OPEN for longer than the
\* unstable threshold without an inbound delivery; the unstable timer moves
\* it from OPEN to UNSTABLE and closes nothing; the next inbound delivery, of
\* any content, moves it back to OPEN and restarts both timers.
C9_UnstableAndRecovery ==
    /\ [](handshakeComplete /\ state = "OPEN" => idle <= unstableThreshold)
    /\ [][(event'.op = "unstableTimer" /\ state = "OPEN")
            => /\ state' = "UNSTABLE"
               /\ chans' = chans
               /\ channel' = channel
               /\ closeCalls' = closeCalls]_vars
    /\ [][(event'.op = "message" /\ handshakeComplete /\ state = "UNSTABLE")
            => /\ state' = "OPEN"
               /\ calls' = <<Call("onstatechange", "OPEN", 0, <<>>, <<>>)>>
               /\ BothTimersRestarted']_vars

\* C9 witness: a delivery has just brought the tunnel back from UNSTABLE.
C9_Witness ==
    /\ event.op = "message"
    /\ handshakeComplete
    /\ state = "OPEN"
    /\ calls = <<Call("onstatechange", "OPEN", 0, <<>>, <<>>)>>
    /\ BothTimersRestarted

\* C10: a timer is pending only while the state is OPEN or UNSTABLE.
C10_TimersOnlyWhileConnected ==
    timers # {} => state \in {"OPEN", "UNSTABLE"}

\* C11: whenever the tunnel is CLOSED after a connect(), no timer is pending
\* and every channel the instance created has had channel.close() called on
\* it by the tunnel exactly once, however CLOSED was reached and however
\* often connect() was called.
C11_ClosedReleasesEverything ==
    (connects >= 1 /\ state = "CLOSED") =>
        /\ timers = {}
        /\ \A c \in Channels : chans[c] # "none" => closeCalls[c] = 1

\* the states announced by the onstatechange calls of a handler, in order
IsStateChange(call) == call.cb = "onstatechange"

StatesEntered(log) ==
    LET changes == SelectSeq(log, IsStateChange)
    IN [i \in 1..Len(changes) |-> changes[i].state]

\* the state changes the tunnel is said to make; connect() on a tunnel that
\* is CLOSED is the one way into CONNECTING
ListedChange(from, to) ==
    \/ from = "CONNECTING" /\ to = "OPEN"
    \/ from = "OPEN" /\ to = "UNSTABLE"
    \/ from = "UNSTABLE" /\ to = "OPEN"
    \/ to = "CLOSED"
    \/ from = "CLOSED" /\ to = "CONNECTING"

\* C12: every state change any handler makes is CONNECTING -> OPEN,
\* OPEN -> UNSTABLE, UNSTABLE -> OPEN or a change to CLOSED (connect() taking
\* a CLOSED tunnel to CONNECTING apart): never CONNECTING -> UNSTABLE, never
\* OPEN or UNSTABLE -> CONNECTING, never out of CLOSED by an instruction.
C12_OnlyListedStateChanges ==
    [][LET visited == <<state>> \o StatesEntered(calls')
       IN \A i \in 1..(Len(visited) - 1) :
              ListedChange(visited[i], visited[i + 1])]_vars

\* the calls of the instruction sink made by a handler
IsForward(call) == call.cb = "oninstruction"

\* C13: an instruction decoded while the handshake is complete is passed to
\* the instruction sink exactly once, as the handler's first call and with
\* its own opcode and parameters (one instruction per step, so in decoding
\* order); an instruction decoded before completion, `ready` included, is
\* not passed to the sink; one that follows `ready` in the same delivery is.
C13_ForwardedOnceAfterHandshake ==
    [][event'.op = "instruction" =>
        IF handshakeComplete
        THEN /\ Len(SelectSeq(calls', IsForward)) = 1
             /\ calls'[1].cb = "oninstruction"
             /\ calls'[1].text = event'.opcode
             /\ calls'[1].params = event'.params
        ELSE NotForwarded(calls')]_vars

\* an instruction that follows the handshake's `ready` in the same delivery
\* has been passed to the sink
C13_Witness ==
    /\ event.op = "instruction"
    /\ event.afterReady
    /\ Len(SelectSeq(calls, IsForward)) = 1
    /\ calls[1].text = event.opcode

\* what the daemon reads from one write: the elements of an instruction in
\* the wire format <length>.<value>,...; (<<>> for text that is not one)
RECURSIVE CountDigits(_, _)
CountDigits(w, i) ==
    IF i <= Len(w) /\ IsDigit(w[i]) THEN CountDigits(w, i + 1) ELSE i - 1

RECURSIVE WireElementsFrom(_, _)
WireElementsFrom(w, acc) ==
    LET n == CountDigits(w, 1)
        len == DigitsValue(SubSeq(w, 1, n), 0)
        end == n + 1 + len
    IN  IF n = 0 \/ Len(w) < end + 1 \/ w[n + 1] # "." THEN <<>>
        ELSE LET value == SubSeq(w, n + 2, end)
                 rest == SubSeq(w, end + 2, Len(w))
             IN  IF w[end + 1] = ";"
                 THEN (IF rest = <<>> THEN Append(acc, value) ELSE <<>>)
                 ELSE IF w[end + 1] = ","
                 THEN WireElementsFrom(rest, Append(acc, value))
                 ELSE <<>>

WireElements(w) == WireElementsFrom(w, <<>>)

\* the opcodes of the instructions a handler wrote, in order
WrittenOpcodes(writes) ==
    [i \in DOMAIN writes |->
        LET e == WireElements(writes[i]) IN IF e = <<>> THEN <<>> ELSE e[1]]

\* the tunnel holds a channel that is still valid
ChannelValid == channel # 0 /\ chans[channel] = "open"

\* the last handler processed an "args" instruction of the handshake
HandshakeArgsStep ==
    /\ event'.op = "instruction"
    /\ event'.opcode = S_args
    /\ ~handshakeComplete

\* connect() writes `select` with the protocol of the settings ('rdp' when
\* they name none) before anything else
SelectIsFirstWrite ==
    event'.op = "connect" =>
        /\ sent' # <<>>
        /\ WireElements(sent'[1]) =
               <<S_select, OrStr(connectionSettings.protocol, S_rdp)>>

HandshakeReplyOpcodes == <<S_size, S_audio, S_video, S_image, S_connect>>

MaxArgs == 3

ArgNames ==
    {S_hostname, S_port, S_width, S_ignore_cert, S_VERSION_1_5_0, S_bogus,
     S_constructor}

ArgLists == UNION {[1..n -> ArgNames] : n \in 0..MaxArgs}

HandshakeInstructions ==
    {Instr(S_args, names) : names \in ArgLists} \cup {Instr(S_ready, <<>>)}

\* a channel delivers data holding one complete instruction: its message
\* listener runs up to parser.receive
HandshakeMessage ==
    /\ receiving = 0
    /\ \E c \in Channels :
        /\ chans[c] = "open"
        /\ Commit(messageListener(Self))
        /\ receiving' = c
        /\ remaining' = 1
    /\ idle' = 0
    /\ event' = Event("message", <<>>, <<>>)
    /\ UNCHANGED <<connects, errorSeen, timedOut>>
    /\ UNCHANGED <<installVars, iniVars>>

\* parser.receive hands that instruction to processInstruction; the
\* consumer takes what is forwarded to it and does not call back
HandshakeInstruction ==
    /\ receiving # 0
    /\ \E i \in HandshakeInstructions :
        /\ Commit(processInstruction(Self, i.opcode, i.params, "none"))
        /\ event' = [Event("instruction", i.opcode, i.params) EXCEPT
                         !.afterReady =
                             \/ event.op = "instruction" /\ event.afterReady
                             \/ /\ event.op = "instruction"
                                /\ event.opcode = S_ready
                                /\ NotForwarded(calls)]
    /\ remaining' = remaining - 1
    /\ receiving' = IF remaining = 1 THEN 0 ELSE receiving
    /\ UNCHANGED <<connects, idle, timedOut, errorSeen>>
    /\ UNCHANGED <<installVars, iniVars>>

NextHandshake ==
    \/ Connect
    \/ HandshakeMessage
    \/ HandshakeInstruction

SpecHandshake == Init /\ [][NextHandshake]_vars

\* ------------------------------------------------ the claims, continued
\* the value configured for a parameter name under each of the two settings
\* of the model, written out
ConfiguredValue(settings, name) ==
    CASE name = S_hostname ->
            IF settings = NoSettings THEN S_localhost ELSE S_example
      [] name = S_port ->
            IF settings = NoSettings THEN <<"3", "3", "8", "9">>
            ELSE <<"3", "3", "9", "0">>
      [] name = S_width ->
            IF settings = NoSettings THEN <<"1", "0", "2", "4">>
            ELSE <<"8", "0", "0">>
      [] name = S_ignore_cert ->
            IF settings = NoSettings THEN S_true ELSE <<>>

KnownNames == {S_hostname, S_port, S_width, S_ignore_cert}

\* the elements of the `connect` instruction the last handler wrote
ConnectWritten(writes) == WireElements(writes[Len(writes)])

\* C15: the `connect` written in reply to "args" has one argument for each
\* requested name, in the order of the names, and its i-th argument depends
\* on the i-th name alone: the configured value for a known name, the name
\* itself for a name with the VERSION_ prefix.
C15_ConnectArgsFollowNames ==
    [][(HandshakeArgsStep /\ ChannelValid) =>
        LET names == event'.params
            written == ConnectWritten(sent')
        IN  /\ Len(sent') = 5
            /\ written # <<>>
            /\ written[1] = S_connect
            /\ Len(written) = Len(names) + 1
            /\ \A i \in 1..Len(names) :
                /\ names[i] \in KnownNames =>
                       written[i + 1] =
                           ConfiguredValue(connectionSettings, names[i])
                /\ startsWith(names[i], S_VERSION_) =>
                       written[i + 1] = names[i]]_vars

\* the names hostname, port, width asked of a tunnel with hostname
\* localhost, port 3389 and width 1024 have been answered with these values
C15_Witness ==
    /\ event.op = "instruction"
    /\ event.opcode = S_args
    /\ event.params = <<S_hostname, S_port, S_width>>
    /\ ~handshakeComplete
    /\ connectionSettings = NoSettings
    /\ ConnectWritten(sent) =
           <<S_connect, S_localhost, <<"3", "3", "8", "9">>,
             <<"1", "0", "2", "4">> >>

\* C16: for every requested name that is neither a key of the parameter map
\* nor a VERSION_ name the `connect` argument is the empty string; the
\* handshake is not aborted by such a name (the "args" step changes neither
\* the state nor the flag, closes no channel and calls nothing), and a
\* `ready` received before completion still opens the tunnel.
C16_UnmappedNameGivesEmpty ==
    [][/\ (HandshakeArgsStep /\ ChannelValid) =>
            LET names == event'.params
                written == ConnectWritten(sent')
            IN  /\ Len(written) = Len(names) + 1
                /\ \A i \in 1..Len(names) :
                       (names[i] \notin MappedNames
                            /\ ~startsWith(names[i], S_VERSION_))
                       => written[i + 1] = <<>>
       /\ HandshakeArgsStep =>
            /\ state' = state
            /\ handshakeComplete' = handshakeComplete
            /\ chans' = chans
            /\ calls' = <<>>
       /\ (event'.op = "instruction" /\ event'.opcode = S_ready
              /\ ~handshakeComplete) =>
            /\ handshakeComplete'
            /\ state' = "OPEN"]_vars

\* the last handler processed a `ready` of the handshake
HandshakeReadyStep ==
    /\ event'.op = "instruction"
    /\ event'.opcode = S_ready
    /\ ~handshakeComplete

IsUuidCall(call) == call.cb = "onuuid"

\* C17: a `ready` received before the handshake is complete records its
\* first argument as the session identifier when it has one and sets none
\* otherwise, marks the handshake complete, moves the state to OPEN and
\* starts both timers; no other step sets the session identifier.
C17_ReadyCompletesHandshake ==
    [][/\ HandshakeReadyStep =>
            /\ handshakeComplete'
            /\ state' = "OPEN"
            /\ BothTimersRestarted'
            /\ IF event'.params # <<>>
               THEN /\ uuid' = <<event'.params[1]>>
                    /\ Len(SelectSeq(calls', IsUuidCall)) = 1
               ELSE /\ uuid' = uuid
                    /\ SelectSeq(calls', IsUuidCall) = <<>>
       /\ ~HandshakeReadyStep =>
            /\ uuid' = uuid
            /\ SelectSeq(calls', IsUuidCall) = <<>>]_vars

\* a `ready` carrying an identifier has completed a handshake
C17_Witness ==
    /\ event.op = "instruction"
    /\ event.opcode = S_ready
    /\ event.params = << <<"$", "7">> >>
    /\ NotForwarded(calls)
    /\ uuid = << <<"$", "7">> >>
    /\ handshakeComplete
    /\ state = "OPEN"
    /\ BothTimersRestarted

\* C18: an instruction received before the handshake is complete whose
\* opcode is none of args, ready, error is ignored: the step changes neither
\* the state, the flag, the session identifier nor the timers, writes
\* nothing and calls no consumer callback.
C18_UnknownOpcodeIgnored ==
    [][(/\ event'.op = "instruction"
        /\ event'.opcode \notin {S_args, S_ready, S_error}
        /\ ~handshakeComplete)
       => /\ state' = state
          /\ handshakeComplete' = handshakeComplete
          /\ uuid' = uuid
          /\ timers' = timers
          /\ receiveTimeoutId' = receiveTimeoutId
          /\ unstableTimeoutId' = unstableTimeoutId
          /\ channel' = channel
          /\ chans' = chans
          /\ sent' = <<>>
          /\ calls' = <<>>]_vars

\* a `sync` has arrived during the handshake
C18_Witness ==
    /\ event.op = "instruction"
    /\ event.opcode = S_sync
    /\ ~handshakeComplete
    /\ state = "CONNECTING"
    /\ calls = <<>>
    /\ sent = <<>>

IsErrorCall(call) == call.cb = "onerror"

\* C19: disconnect() called in OPEN or UNSTABLE writes one `disconnect`
\* instruction and leaves the tunnel CLOSED; called in CONNECTING it leaves
\* the tunnel CLOSED and writes nothing; it never calls the error callback;
\* called on a tunnel that is CLOSED (a second disconnect()) it has no
\* effect.
C19_DisconnectWritesThenCloses ==
    [][event'.op = "disconnect" =>
        /\ state \in {"OPEN", "UNSTABLE"} =>
              /\ WrittenOpcodes(sent') = <<S_disconnect>>
              /\ state' = "CLOSED"
        /\ state = "CONNECTING" =>
              /\ sent' = <<>>
              /\ state' = "CLOSED"
        /\ SelectSeq(calls', IsErrorCall) = <<>>
        /\ state = "CLOSED" =>
              /\ state' = "CLOSED"
              /\ sent' = <<>>
              /\ calls' = <<>>
              /\ timers' = timers
              /\ channel' = channel
              /\ chans' = chans
              /\ closeCalls' = closeCalls
              /\ uuid' = uuid
              /\ handshakeComplete' = handshakeComplete]_vars

\* the last handler was a channel's "close" listener, run on a tunnel that
\* was not CLOSED
TransportClosedStep ==
    /\ event'.op = "close"
    /\ state # "CLOSED"

\* C20: when the transport reports closure with a problem or reason and the
\* tunnel is not CLOSED, the tunnel closes with a server-error status and
\* the error callback is called with it; when it reports closure with
\* neither, the tunnel closes with a success status and the error callback
\* is not called; in CONNECTING as in OPEN and UNSTABLE.
C20_TransportCloseStatus ==
    [][TransportClosedStep =>
        /\ state' = "CLOSED"
        /\ closeStatus' # <<>>
        /\ IF event'.params # <<>>
           THEN /\ closeStatus'[1].code = SERVER_ERROR
                /\ closeStatus'[1].message =
                       S_Connection_closed__ \o event'.params[1]
                /\ Len(SelectSeq(calls', IsErrorCall)) = 1
                /\ \E i \in DOMAIN calls' :
                       /\ calls'[i].cb = "onerror"
                       /\ calls'[i].code = SERVER_ERROR
           ELSE /\ closeStatus'[1].code = SUCCESS
                /\ SelectSeq(calls', IsErrorCall) = <<>>]_vars

\* a channel has closed with a problem while the tunnel was CONNECTING
C20_Witness ==
    /\ event.op = "close"
    /\ event.params = <<S_disconnected>>
    /\ state = "CLOSED"
    /\ ~handshakeComplete
    /\ closeStatus # <<>>
    /\ closeStatus[1].code = SERVER_ERROR
    /\ calls = <<Call("onerror", "CONNECTING", SERVER_ERROR,
                      S_Connection_closed__ \o S_disconnected, <<>>),
                 Call("onstatechange", "CLOSED", 0, <<>>, <<>>)>>

\* ------------------------------------------------- the inbound text stream
\* the same tunnel, fed with text: guacd's text reaches the message listener
\* in chunks cut anywhere, and the listener runs parser.receive on each
MaxElements == 3

\* element values: empty, the delimiters of the wire format, and one
\* character outside the Basic Multilingual Plane, which a JavaScript string
\* holds as two code units
S_delimiters == <<",", ";", ".">>
S_astral == <<"uD83D", "uDE00">>

Values == {<<>>, S_delimiters, S_astral}

ElementLists == UNION {[1..n -> Values] : n \in 1..MaxElements}

\* a handshake with two "args", then one instruction of the session
HandshakeScript ==
    <<Instr(S_args, <<S_port>>), Instr(S_args, <<S_dpi>>),
      Instr(S_ready, <<>>), Instr(S_sync, << <<"1">> >>)>>

Scripts ==
    {HandshakeScript}
        \cup {<<Instr(Head(l), Tail(l))>> : l \in ElementLists}

\* the text of a list of instructions
RECURSIVE Encode(_)
Encode(instructions) ==
    IF instructions = <<>> THEN <<>>
    ELSE formatInstruction(<<Head(instructions).opcode>>
                           \o Head(instructions).params)
         \o Encode(Tail(instructions))

\* text with malformed framing: a length that is no number, a value followed
\* by neither "," nor ";", a length with a letter after its digits; each
\* before and after a `ready`
S_bad_length == <<"x", ".", "s", "y", "n", "c", ";">>
S_bad_terminator == <<"4", ".", "s", "y", "n", "c", "!", "4", ".", "s", "y", "n", "c", ";">>
S_bad_digits == <<"4", "x", ".", "s", "y", "n", "c", ";">>

MalformedTexts ==
    LET bad == {S_bad_length, S_bad_terminator, S_bad_digits}
    IN  bad \cup {formatInstruction(<<S_ready>>) \o b : b \in bad}

\* the consumer calls connect() on the new tunnel, and guacd starts writing
StreamConnect ==
    /\ receiving = 0
    /\ connects = 0
    /\ \E text \in {<<sc, Encode(sc)>> : sc \in Scripts}
                       \cup {<<<<>>, m>> : m \in MalformedTexts} :
        Commit([connect(Self, 1) EXCEPT !.script = text[1],
                                        !.inbound = text[2]])
    /\ connects' = 1
    /\ event' = Event("connect", <<>>, <<>>)
    /\ errorSeen' = FALSE
    /\ timedOut' = FALSE
    /\ UNCHANGED <<receiving, remaining, idle>>
    /\ UNCHANGED <<installVars, iniVars>>

IsHandshakeError(i) == i.opcode = S_error /\ ~i.forwarded

\* the tunnel's channel delivers the next k characters: its message listener
\* runs to its end
StreamDeliver ==
    /\ receiving = 0
    /\ inbound # <<>>
    /\ channel # 0
    /\ chans[channel] = "open"
    /\ \E k \in 1..Len(inbound) :
        LET data == SubSeq(inbound, 1, k)
            t == onMessage([Self EXCEPT !.inbound =
                               SubSeq(inbound, k + 1, Len(inbound))], data)
        IN  /\ Commit(t)
            /\ event' = Event("message", <<>>, data)
            /\ errorSeen' =
                   (errorSeen \/ SelectSeq(t.processed, IsHandshakeError) # <<>>)
    /\ idle' = 0
    /\ UNCHANGED <<receiving, remaining, connects, timedOut>>
    /\ UNCHANGED <<installVars, iniVars>>

NextStream ==
    \/ StreamConnect
    \/ StreamDeliver

SpecStream == Init /\ [][NextStream]_vars


\* the last delivery ended in an exception of Guacamole.Parser.receive: the
\* parser met a length that is no number, or a value followed by neither
\* "," nor ";"
FramingRejected == event'.op = "message" /\ thrown'

\* C21: malformed framing in the inbound stream is fatal at once: in the
\* delivery in which the parser rejects it the tunnel moves to CLOSED with
\* the server-error status and the error callback is called.
C21_MalformedFramingIsFatal ==
    [][FramingRejected =>
          /\ state' = "CLOSED"
          /\ closeStatus' # <<>>
          /\ closeStatus'[1].code = SERVER_ERROR
          /\ \E i \in DOMAIN calls' : IsErrorCall(calls'[i])]_vars


\* the handler of this step calls sendRaw while the tunnel has no channel or
\* one that is no longer valid: a handshake reply, a sendMessage() with
\* elements or a disconnect() of a connected tunnel
WriteWithoutChannel ==
    /\ ~ChannelValid
    /\ \/ HandshakeArgsStep
       \/ /\ event'.op = "sendMessage"
          /\ state \in {"OPEN", "UNSTABLE"}
          /\ event'.params # <<>>
       \/ /\ event'.op = "disconnect"
          /\ state \in {"OPEN", "UNSTABLE"}

\* C22: a write the tunnel attempts while its channel is absent or no longer
\* valid closes the tunnel with the server-error status and is reported
\* through the error callback.
C22_FailedWriteIsTransportError ==
    [][WriteWithoutChannel =>
          /\ state' = "CLOSED"
          /\ closeStatus' # <<>>
          /\ closeStatus'[1].code = SERVER_ERROR
          /\ \E i \in DOMAIN calls' : IsErrorCall(calls'[i])]_vars


\* the instructions processed so far, without the note of where they went
Decoded ==
    [i \in DOMAIN processed |->
        Instr(processed[i].opcode, processed[i].params)]

\* one instruction made of elements has been encoded by formatInstruction
\* and its whole text delivered
RoundTripDone == connects = 1 /\ Len(script) = 1 /\ inbound = <<>>

\* C23: round trip: for every opcode and every list of argument strings,
\* also ones holding ",", ";" or "." and empty ones, decoding the text
\* formatInstruction gives yields exactly one instruction, with the same
\* opcode and the same arguments in the same order.
C23_RoundTrip ==
    RoundTripDone => /\ ~thrown
                     /\ Decoded = script

C23_Witness ==
    /\ RoundTripDone
    /\ script = <<Instr(S_delimiters, <<S_delimiters, <<>>>>)>>
    /\ Decoded = script
    /\ Len(event.params) < Len(fed)


\* the tunnel as connect() left it, before any delivery
JustConnected ==
    [Self EXCEPT !.state = "CONNECTING", !.uuid = <<>>,
                 !.handshakeComplete = FALSE, !.receiveTimeoutId = 0,
                 !.unstableTimeoutId = 0, !.timers = {}, !.channel = 1,
                 !.chans = [c \in Channels |-> IF c = 1 THEN "open" ELSE "none"],
                 !.parser = <<NewParser>>, !.fed = <<>>, !.processed = <<>>]

\* what the tunnel processes, and where each instruction goes, when text
\* arrives in one message
OnePass(text) == onMessage(JustConnected, text).processed

\* a valid stream is being delivered, and so far in more than one message
Fragmented ==
    /\ connects = 1
    /\ script # <<>>
    /\ fed # <<>>
    /\ Len(event.params) < Len(fed)

\* C24: fragmentation invariance: however a valid encoded stream is cut into
\* consecutive messages, the instructions the tunnel has processed, and
\* which of them it forwarded to the sink, are those it processes when the
\* text delivered so far arrives in one message; so for the whole stream.
C24_FragmentationInvariance ==
    connects = 1 /\ script # <<>> => processed = OnePass(fed)

C24_Witness ==
    /\ Fragmented
    /\ script = HandshakeScript
    /\ inbound = <<>>
    /\ Len(event.params) = 1
    /\ Len(processed) = 4
    /\ processed[4].forwarded
    /\ processed = OnePass(fed)


\* the number of characters of a string as guacd counts them: Unicode code
\* points, a surrogate pair being one
CodePointCount(value) ==
    Len(value)
        - Cardinality({i \in 1..(Len(value) - 1) :
                          /\ value[i] \in HighSurrogates
                          /\ value[i + 1] \in LowSurrogates})

\* the wire text of elements i.. : <count>.<value> joined by ","
RECURSIVE WireText(_, _)
WireText(elements, i) ==
    IF i > Len(elements) THEN <<>>
    ELSE (IF i > 1 THEN <<",">> ELSE <<>>)
         \o NumberToString(CodePointCount(elements[i])) \o <<".">>
         \o elements[i] \o WireText(elements, i + 1)

\* the text formatInstruction gave for the one instruction of the script
Formatted == fed \o inbound

\* C25: formatInstruction emits each element in order as <length>.<value>,
\* joined by "," and ended by ";", with nothing escaped, the length being
\* the number of characters of the value as guacd's parser counts them.
C25_LengthCountsCharacters ==
    connects = 1 /\ Len(script) = 1 =>
        Formatted = WireText(<<script[1].opcode>> \o script[1].params, 1)
                        \o <<";">>


\* a delivery reaches the message listener of a connected tunnel whose
\* handshake is complete
DeliveryAfterHandshake ==
    /\ event'.op = "message"
    /\ handshakeComplete
    /\ state \in {"OPEN", "UNSTABLE"}

\* a step in which the state becomes UNSTABLE, or a timeout closes the tunnel
UnstableOrTimeout ==
    \/ state # "UNSTABLE" /\ state' = "UNSTABLE"
    \/ /\ event'.op = "receiveTimer"
       /\ state # "CLOSED"
       /\ state' = "CLOSED"

\* C26: after the handshake both timers are restarted on every inbound
\* delivery: each then has its whole delay ahead and no older timer is left;
\* so the tunnel becomes UNSTABLE or is closed by timeout only when no
\* delivery has arrived for the unstable threshold or longer.
C26_TimersRestartedOnDelivery ==
    /\ [][DeliveryAfterHandshake =>
              /\ BothTimersRestarted'
              /\ state' = "OPEN"]_vars
    /\ [][handshakeComplete /\ UnstableOrTimeout =>
              idle >= unstableThreshold]_vars

\* a delivery has just restarted the timers of a tunnel that had gone one
\* tick without input
C26_Witness ==
    /\ event.op = "message"
    /\ handshakeComplete
    /\ state = "OPEN"
    /\ calls = <<>>
    /\ BothTimersRestarted
    /\ unstableTimeoutId > 2
    /\ idle = 0


\* the tunnel after each handler that, called now, closes it because of an
\* error: an `error` instruction of the handshake, the receive timer, a
\* channel closing with a problem
ErrorClosures ==
    IF state = "CLOSED" THEN {}
    ELSE IF receiving # 0
    THEN {processInstruction(Self, i.opcode, i.params, "none") :
              i \in {j \in Instructions :
                        j.opcode = S_error /\ ~handshakeComplete}}
    ELSE {receiveTimerCallback([Self EXCEPT !.timers = @ \ {x}]) :
              x \in {y \in timers : y.kind = "receive" /\ y.left = 0}}
         \cup {closeListener([Self EXCEPT !.chans[c] = "closed"],
                             <<S_disconnected>>) :
                   c \in {d \in Channels : chans[d] = "open"}}

StepNames(log) == [i \in DOMAIN log |-> log[i].step]

\* the steps of one closure are in the order named, each finding what the
\* steps before it left
InOrder(log, hadChannel) ==
    /\ Len(log) >= 3
    /\ SubSeq(StepNames(log), 1, 3) = <<"clearTimers", "onerror", "setState">>
    /\ log[2].pending = 0
    /\ log[2].state # "CLOSED"
    /\ log[3].state # "CLOSED"
    /\ hadChannel =>
           /\ Len(log) >= 4
           /\ log[4].step = "channel.close"
           /\ log[4].state = "CLOSED"

\* C27: on a closure triggered by an error the timers are cancelled, then
\* the error callback is called, then the state becomes CLOSED, and only
\* then is the channel closed; the error callback finds a state other than
\* CLOSED.
C27_ErrorClosureOrder ==
    \A t \in ErrorClosures : InOrder(t.steps, channel # 0)


\* the arguments of the `connect` instructions among writes
IsConnectWrite(data) ==
    LET e == WireElements(data) IN e # <<>> /\ e[1] = S_connect

\* the instructions the last delivery made the tunnel process
NewlyProcessed == SubSeq(processed', Len(processed) + 1, Len(processed'))

IsHandshakeArgs(i) == i.opcode = S_args /\ ~i.forwarded

\* C28: the handshake reply is not one-shot: while the channel is valid, a
\* delivery before `ready` makes the tunnel write one size, audio, video,
\* image, connect sequence for each `args` it holds before `ready`, so as
\* many `connect` instructions as `args` were received.
C28_ReplyPerArgs ==
    [][event'.op = "message" /\ ~handshakeComplete /\ ChannelValid =>
          LET n == Len(SelectSeq(NewlyProcessed, IsHandshakeArgs))
          IN  /\ Len(SelectSeq(sent', IsConnectWrite)) = n
              /\ WrittenOpcodes(sent') =
                     [i \in 1..(5 * n) |->
                         HandshakeReplyOpcodes[((i - 1) % 5) + 1]]]_vars

\* one delivery has held both `args` of the script and the tunnel has
\* written two whole replies
C28_Witness ==
    /\ event.op = "message"
    /\ script = HandshakeScript
    /\ Len(processed) >= 2
    /\ Len(SelectSeq(sent, IsConnectWrite)) = 2
    /\ Len(sent) = 10


\* C29: sendMessage() changes neither the tunnel state, the handshake flag,
\* the session identifier nor a timer, whether it writes or not, and calls
\* no callback: a timer pending before is pending after, with the same delay
\* left.
C29_SendMessageChangesNothing ==
    [][event'.op = "sendMessage" =>
          /\ UNCHANGED <<state, handshakeComplete, uuid, timers,
                         receiveTimeoutId, unstableTimeoutId, channel, chans>>
          /\ calls' = <<>>
          /\ Len(sent') <= 1
          /\ sent' # <<>> =>
                 /\ state \in {"OPEN", "UNSTABLE"}
                 /\ ChannelValid
                 /\ sent' = <<formatInstruction(event'.params)>>]_vars

\* sendMessage() has written on a tunnel that is UNSTABLE, which stays
\* UNSTABLE with its receive timer running
C29_Witness ==
    /\ event.op = "sendMessage"
    /\ sent # <<>>
    /\ state = "UNSTABLE"
    /\ \E x \in timers : x.kind = "receive" /\ x.left < receiveTimeout


\* an instruction with a handshake opcode reaches processInstruction after
\* the handshake is complete
HandshakeOpcodeAfterHandshake ==
    /\ event'.op = "instruction"
    /\ event'.opcode \in {S_args, S_ready, S_error}
    /\ handshakeComplete

\* nothing but the hand-over to the sink has happened
OnlyForwarded ==
    /\ Len(calls') = 1
    /\ sent' = <<>>
    /\ UNCHANGED <<state, timers, receiveTimeoutId, unstableTimeoutId,
                   channel, chans, closeStatus>>

\* the consumer has called disconnect() from inside the sink: the tunnel is
\* CLOSED by a manual closure, or was CLOSED already
ConsumerDisconnected ==
    /\ state' = "CLOSED"
    /\ receiveTimeoutId' = 0
    /\ unstableTimeoutId' = 0
    /\ channel' = 0
    /\ closeStatus' = IF state = "CLOSED" THEN closeStatus
                      ELSE <<Status(SUCCESS, S_Manually_closed_)>>
    /\ sent' \in {<<>>, <<formatInstruction(<<S_disconnect>>)>>}
    /\ calls' \in {SubSeq(calls', 1, 1),
                   Append(SubSeq(calls', 1, 1),
                          Call("onstatechange", "CLOSED", 0, <<>>, <<>>))}

\* C30: after the handshake an `args`, `ready` or `error` instruction is
\* handed to the instruction sink with its opcode and arguments, and the
\* tunnel does nothing else with it: no handshake reply, no change of uuid,
\* flag, state or timers, no closure and no error callback; whatever else
\* changes is the consumer's own disconnect() from inside the sink.
C30_ForwardedNotInterpreted ==
    [][HandshakeOpcodeAfterHandshake =>
          /\ calls' # <<>>
          /\ calls'[1] = Call("oninstruction", state, 0,
                              event'.opcode, event'.params)
          /\ uuid' = uuid
          /\ handshakeComplete'
          /\ OnlyForwarded \/ ConsumerDisconnected]_vars

\* an `error` with an error code has gone to the sink of an OPEN tunnel,
\* which stays OPEN
C30_Witness ==
    /\ event.op = "instruction"
    /\ event.opcode = S_error
    /\ event.params = <<S_denied, <<"7", "6", "9">>>>
    /\ handshakeComplete
    /\ state = "OPEN"
    /\ calls = <<Call("oninstruction", "OPEN", 0, S_error, event.params)>>
    /\ nError = 0


\* the pending timers of one kind
Pending(kind) == {x \in timers : x.kind = kind}

\* C31: at most one unstable timer and at most one receive timer are pending
\* at any time, and a pending timer is the one the tunnel holds the id of:
\* arming a timer cancels the pending one of its kind first.
C31_OneTimerOfEachKind ==
    /\ Cardinality(Pending("unstable")) <= 1
    /\ Cardinality(Pending("receive")) <= 1
    /\ \A x \in Pending("unstable") : x.id = unstableTimeoutId
    /\ \A x \in Pending("receive") : x.id = receiveTimeoutId

\* a delivery has armed both timers again while the earlier ones were still
\* pending, and only the new ones are left
C31_Witness ==
    /\ event.op = "message"
    /\ handshakeComplete
    /\ Cardinality(timers) = 2
    /\ unstableTimeoutId > 2
    /\ receiveTimeoutId # unstableTimeoutId
    /\ \A x \in timers : x.left = (IF x.kind = "unstable"
                                   THEN unstableThreshold ELSE receiveTimeout)


\* ======================================================================
\* PackageKit D-Bus integration: createTransaction, runTransaction,
\* resolvePackages, installPackageIds, installServicePackages
\* ======================================================================

\* number of signals the PackageKit daemon emits on one transaction
MaxSignals == 3

PK_INFO_INSTALLED == 1

\* the info values of Package signals: installed, and one that is not
Infos == {PK_INFO_INSTALLED, PK_INFO_INSTALLED + 1}

S_guacd == <<"g", "u", "a", "c", "d">>
S_guacamole_server == <<"g", "u", "a", "c", "a", "m", "o", "l", "e", "-", "s", "e", "r", "v", "e", "r">>
S_libguac_client_rdp == <<"l", "i", "b", "g", "u", "a", "c", "-", "c", "l", "i", "e", "n", "t", "-", "r", "d", "p">>
S_libguac_client_rdp0 == <<"l", "i", "b", "g", "u", "a", "c", "-", "c", "l", "i", "e", "n", "t", "-", "r", "d", "p", "0">>
S_xrdp == <<"x", "r", "d", "p">>
S_PackageKit_error == <<"P", "a", "c", "k", "a", "g", "e", "K", "i", "t", " ", "e", "r", "r", "o", "r">>
S_already_installed == <<"a", "l", "r", "e", "a", "d", "y", "-", "i", "n", "s", "t", "a", "l", "l", "e", "d">>
S_Unknown_service == <<"U", "n", "k", "n", "o", "w", "n", " ", "s", "e", "r", "v", "i", "c", "e", ":", " ">>
S_Package_not_found == <<"P", "a", "c", "k", "a", "g", "e", " ", "n", "o", "t", " ", "f", "o", "u", "n", "d", ".", " ", "T", "r", "i", "e", "d", ":", " ">>
S_comma_blank == <<",", " ">>
S_dot_blank == <<".", " ">>
S_enable_repositories == <<"Y", "o", "u", " ", "m", "a", "y", " ", "n", "e", "e", "d", " ", "t", "o", " ", "e", "n", "a", "b", "l", "e", " ", "a", "d", "d", "i", "t", "i", "o", "n", "a", "l", " ", "r", "e", "p", "o", "s", "i", "t", "o", "r", "i", "e", "s", " ", "(", "e", ".", "g", ".", ",", " ", "E", "P", "E", "L", ")", ".">>

\* messages of the errors the D-Bus client reports (cockpit.dbus call
\* failures), and the details text of PackageKit's ErrorCode signals
S_not_authorized == <<"n", "o", "t", "-", "a", "u", "t", "h">>
S_no_network == <<"n", "o", " ", "n", "e", "t">>
S_TypeError == <<"T", "y", "p", "e", "E", "r", "r", "o", "r">>

\* new Error(message)
Error(message) == [message |-> message]

\* the names every object literal ({} and SERVICE_PACKAGES) inherits from
\* Object.prototype: obj[name] is truthy for them without any own key
InheritedNames == ObjectPrototypeFunctions \cup {S_constructor, S___proto__}

\* SERVICE_PACKAGES[serviceName]: <<>> when undefined; an inherited value
\* has neither candidates nor extras
SERVICE_PACKAGES(serviceName) ==
    CASE serviceName = S_guacd ->
           <<[kind |-> "service",
              candidates |-> <<S_guacd, S_guacamole_server>>,
              extras |-> << <<S_libguac_client_rdp, S_libguac_client_rdp0>> >>]>>
      [] serviceName = S_xrdp ->
           <<[kind |-> "service", candidates |-> <<S_xrdp>>, extras |-> <<>>]>>
      [] serviceName \in InheritedNames ->
           <<[kind |-> "inherited", candidates |-> <<>>, extras |-> <<>>]>>
      [] OTHER -> <<>>

\* array.indexOf(x) !== -1
Includes(array, x) == \E i \in 1..Len(array) : array[i] = x

\* str.split(sep)[0]: the text before the first sep, all of it without one
RECURSIVE SplitFirst(_, _)
SplitFirst(str, sep) ==
    IF str = <<>> \/ Head(str) = sep THEN <<>>
    ELSE <<Head(str)>> \o SplitFirst(Tail(str), sep)

\* array.join(sep) of an array of strings
RECURSIVE Join(_, _)
Join(array, sep) ==
    IF array = <<>> THEN <<>>
    ELSE IF Len(array) = 1 THEN array[1]
    ELSE array[1] \o sep \o Join(Tail(array), sep)

\* a PackageKit package id "name;version;arch;data" as the daemon reports
\* it: the installed build of a package and the one in a repository differ
PackageId(name, info) ==
    name \o <<";">> \o NumberToString(info) \o <<";", "x", ";">>
         \o (IF info = PK_INFO_INSTALLED THEN <<"i">> ELSE <<"r">>)


\* ------------------------------------------------------- runTransaction
\* the PackageKit part of the program as the operators below transform it
PkSelf == [install |-> install, transactions |-> transactions]

\* one runTransaction call: createTransaction is under way, nothing is
\* subscribed, finished = false, lastError = null, the promise is pending.
\* Beside the program's own variables a transaction keeps what PackageKit
\* did: the signals it emitted, those the callback received, those emitted
\* to no subscription before the end, the details of the last ErrorCode
\* delivered, the first Package signal delivered for each package name,
\* and the calls of resolve and reject.
NewTransaction(method, args) ==
    [method |-> method, args |-> args, stage |-> "creating",
     subscribed |-> FALSE, subscribedAtCall |-> FALSE, removes |-> 0,
     finished |-> FALSE, lastError |-> <<>>, replyPending |-> FALSE,
     emitted |-> 0, done |-> FALSE, received |-> 0, invoked |-> 0,
     missed |-> 0, errorCode |-> <<>>, firstPackage |-> {},
     settles |-> 0, settled |-> <<>>]

\* runTransaction up to its first await: createTransaction(pkClient) calls
\* CreateTransaction on the PackageKit object
runTransaction(p, method, args) ==
    [p EXCEPT !.transactions = Append(@, NewTransaction(method, args))]

\* installPackageIds: one InstallPackages transaction for packageIds
installPackageIds(p, packageIds) ==
    runTransaction(p, "InstallPackages", packageIds)

\* the promise installServicePackages returned is settled; for the chain
\* that reached resolvePackages, .finally has closed the client before
installSettled(p, kind, message) ==
    [p EXCEPT !.install.outcome = <<[kind |-> kind, message |-> message]>>]

\* .finally(function() { pkClient.close(); }), then the outcome passes on
installFinally(p, kind, message) ==
    installSettled([p EXCEPT !.install.pkClient = "closed",
                             !.install.closes = @ + 1], kind, message)

\* seenNames[name] of the object literal seenNames = {}
Seen(seenNames, name) == name \in seenNames \/ name \in InheritedNames

\* pkg.id of every package of resolved.available whose name is an extra
AvailableExtras(serviceInfo, available) ==
    IF serviceInfo.extras = <<>> THEN <<>>
    ELSE LET extras == SelectSeq(available,
                 LAMBDA pkg : Includes(serviceInfo.extras[1], pkg.name))
         IN  [i \in 1..Len(extras) |-> extras[i].id]

\* a .then callback that installs every available candidate
installThen_AllCandidates(p) ==
    LET serviceInfo == SERVICE_PACKAGES(p.install.serviceName[1])[1]
        wanted == SelectSeq(p.install.available,
                      LAMBDA pkg : \/ Includes(serviceInfo.candidates, pkg.name)
                                   \/ /\ serviceInfo.extras # <<>>
                                      /\ Includes(serviceInfo.extras[1], pkg.name))
    IN  IF wanted = <<>>
        THEN installFinally(p, "resolved", S_already_installed)
        ELSE installPackageIds(p, [i \in 1..Len(wanted) |-> wanted[i].id])

\* the .then callback of installServicePackages on the resolved lists
installThen(p) ==
    LET serviceInfo == SERVICE_PACKAGES(p.install.serviceName[1])[1]
        resolved == p.install
        mainInstalled == \E i \in 1..Len(resolved.installed) :
            Includes(serviceInfo.candidates, resolved.installed[i].name)
        extraIds == AvailableExtras(serviceInfo, resolved.available)
        mains == SelectSeq(resolved.available,
                     LAMBDA pkg : Includes(serviceInfo.candidates, pkg.name))
        msg == S_Package_not_found
                 \o Join(serviceInfo.candidates, S_comma_blank) \o S_dot_blank
                 \o (IF Len(resolved.unavailable) > 0
                     THEN S_enable_repositories ELSE <<>>)
    IN  IF mainInstalled
        THEN IF Len(extraIds) = 0
             THEN installFinally(p, "resolved", S_already_installed)
             ELSE installPackageIds(p, extraIds)
        ELSE IF mains = <<>>
             THEN installFinally(p, "rejected", msg)
             ELSE installPackageIds(p, <<mains[1].id>> \o extraIds)

\* the .then callback of resolvePackages: the names no Package signal
\* marked in seenNames are unavailable
resolveThen(p) ==
    [p EXCEPT !.install.unavailable =
        SelectSeq(p.install.packageNames,
                  LAMBDA name : ~Seen(p.install.seenNames, name))]

\* what follows when the promise of runTransaction number k settles
transactionSettled(p, k, kind, message) ==
    IF p.transactions[k].method = "Resolve"
    THEN IF kind = "resolved"
         THEN IF p.install.api = "resolvePackages"
              THEN installSettled(resolveThen(p), "resolved", <<>>)
              ELSE installThen(resolveThen(p))
         ELSE IF p.install.api = "resolvePackages"
              THEN installSettled(p, "rejected", message)
              ELSE installFinally(p, "rejected", message)
    ELSE installFinally(p, kind, message)

\* resolve() and reject(err) of the promise runTransaction creates: only
\* the first call settles it
settle(p, k, kind, message) ==
    LET counted == [p EXCEPT !.transactions[k].settles = @ + 1]
    IN  IF p.transactions[k].settled # <<>> THEN counted
        ELSE transactionSettled(
                 [counted EXCEPT !.transactions[k].settled =
                      <<[kind |-> kind, message |-> message]>>],
                 k, kind, message)

\* subscription.remove()
remove(p, k) ==
    [p EXCEPT !.transactions[k].subscribed = FALSE,
              !.transactions[k].removes = @ + 1]

\* the Package handler of resolvePackages
resolvePackage(p, args) ==
    LET info == args[1]
        packageId == args[2]
        name == SplitFirst(packageId, ";")
        pkg == [name |-> name, id |-> packageId]
    IN  IF Seen(p.install.seenNames, name) THEN p
        ELSE LET seen == [p EXCEPT !.install.seenNames = @ \cup {name}]
             IN  IF info = PK_INFO_INSTALLED
                 THEN [seen EXCEPT !.install.installed = Append(@, pkg)]
                 ELSE [seen EXCEPT !.install.available = Append(@, pkg)]

\* handlers.Package and handlers.ItemProgress: resolvePackages passes a
\* Package handler only, installPackageIds both, and those of
\* installPackageIds only call the consumer's progressCallback
HasHandler(method, signal) ==
    \/ signal = "Package"
    \/ signal = "ItemProgress" /\ method = "InstallPackages"

callHandler(p, k, signal, args) ==
    LET invoked == [p EXCEPT !.transactions[k].invoked = @ + 1]
    IN  IF p.transactions[k].method = "Resolve"
        THEN resolvePackage(invoked, args)
        ELSE invoked

\* a Finished branch that forgets the saved ErrorCode
onFinished_IgnoresErrorCode(p, k) ==
    settle(remove([p EXCEPT !.transactions[k].finished = TRUE], k),
           k, "resolved", <<>>)

\* the Finished branch of the subscription callback
onFinished(p, k) ==
    LET closed == remove([p EXCEPT !.transactions[k].finished = TRUE], k)
        lastError == p.transactions[k].lastError
    IN  IF lastError # <<>>
        THEN settle(closed, k, "rejected", lastError[1].message)
        ELSE settle(closed, k, "resolved", <<>>)

\* the callback given to pkClient.subscribe
signalCallback(p, k, signal, args) ==
    IF p.transactions[k].finished THEN p
    ELSE IF signal = "Package" /\ HasHandler(p.transactions[k].method, signal)
    THEN callHandler(p, k, signal, args)
    ELSE IF signal = "ItemProgress"
              /\ HasHandler(p.transactions[k].method, signal)
    THEN callHandler(p, k, signal, args)
    ELSE IF signal = "ErrorCode"
    THEN [p EXCEPT !.transactions[k].lastError =
              <<Error(IF args[2] = <<>> THEN S_PackageKit_error ELSE args[2])>>]
    ELSE IF signal = "Finished"
    THEN onFinished(p, k)
    ELSE p

\* a .catch callback without the finished check
callCatch_NoFinishedCheck(p, k, err) ==
    settle(remove([p EXCEPT !.transactions[k].finished = TRUE], k),
           k, "rejected", err.message)

\* the .catch callback of the transaction method's call
callCatch(p, k, err) ==
    IF ~p.transactions[k].finished
    THEN settle(remove([p EXCEPT !.transactions[k].finished = TRUE], k),
                k, "rejected", err.message)
    ELSE p

\* an executor that calls the transaction method and subscribes to nothing
executor_CallWithoutSubscribing(p, k) ==
    [p EXCEPT !.transactions[k].stage = "called",
              !.transactions[k].replyPending = TRUE,
              !.transactions[k].subscribedAtCall =
                  p.transactions[k].subscribed]

\* the executor of the promise, run when createTransaction has answered:
\* subscribe, then call the transaction method
executor(p, k) ==
    LET subscribed == [p EXCEPT !.transactions[k].subscribed = TRUE]
    IN  [subscribed EXCEPT
            !.transactions[k].stage = "called",
            !.transactions[k].replyPending = TRUE,
            !.transactions[k].subscribedAtCall =
                subscribed.transactions[k].subscribed]

\* createTransaction failed: the promise of runTransaction rejects with
\* the error of the CreateTransaction call, no executor runs
createFailed(p, k, err) ==
    transactionSettled(
        [p EXCEPT !.transactions[k].stage = "failed",
                  !.transactions[k].settled =
                      <<[kind |-> "rejected", message |-> err.message]>>],
        k, "rejected", err.message)

\* resolvePackages(pkClient, packageNames)
resolvePackages(p, packageNames) ==
    runTransaction(
        [p EXCEPT !.install.packageNames = packageNames,
                  !.install.installed = <<>>,
                  !.install.available = <<>>,
                  !.install.unavailable = <<>>,
                  !.install.seenNames = {}],
        "Resolve", packageNames)

\* installServicePackages(serviceName, progressCallback)
installServicePackages(p, serviceName) ==
    LET serviceInfo == SERVICE_PACKAGES(serviceName)
        called == [p EXCEPT !.install.api = "installServicePackages",
                            !.install.serviceName = <<serviceName>>]
        opened == [called EXCEPT !.install.pkClient = "open",
                                 !.install.opens = @ + 1]
    IN  IF serviceInfo = <<>>
        THEN installSettled(called, "rejected",
                            S_Unknown_service \o serviceName)
        ELSE IF serviceInfo[1].kind # "service"
        THEN \* serviceInfo.candidates is undefined, .slice() throws
             installSettled(opened, "thrown", S_TypeError)
        ELSE resolvePackages(opened,
                 serviceInfo[1].candidates
                   \o (IF serviceInfo[1].extras = <<>> THEN <<>>
                       ELSE serviceInfo[1].extras[1]))


\* ------------------------------------------------ PackageKit: actions
\* the service names a caller passes: the two keys of SERVICE_PACKAGES, a
\* name that is no key, and a name every object inherits
ServiceNames == {S_guacd, S_xrdp, S_vnc, S_constructor}

\* the name lists a caller passes to the exported resolvePackages
PackageNameLists == {<<S_xrdp, S_constructor>>}

\* the errors a D-Bus call fails with
CallErrors == {Error(S_not_authorized)}

\* the signals PackageKit can emit on transaction tx, as <<signal, args>>:
\* Package(info, package_id) for the packages the method was given,
\* ItemProgress(package_id, percentage), ErrorCode(code, details), Finished
Signals(tx) ==
    (IF tx.method = "Resolve"
     THEN {<<"Package", <<info, PackageId(tx.args[i], info)>> >> :
               i \in 1..Len(tx.args), info \in Infos}
     ELSE {<<"Package", <<PK_INFO_INSTALLED + 1, tx.args[1]>> >>})
    \cup {<<"ItemProgress", <<tx.args[1], 50>> >>}
    \cup {<<"ErrorCode", <<1, details>> >> : details \in {<<>>, S_no_network}}
    \cup {<<"Finished", <<>> >>}

PkCommit(p, ev) ==
    /\ install' = p.install
    /\ transactions' = p.transactions
    /\ pkEvent' = ev
    /\ UNCHANGED <<tunnelVars, iniVars>>

\* the consumer (showInstallDialog) calls installServicePackages
InstallServicePackages ==
    /\ install.api = "none"
    /\ \E serviceName \in ServiceNames :
         PkCommit(installServicePackages(PkSelf, serviceName),
                  [op |-> "installServicePackages", tx |-> 0,
                   signal |-> "", args |-> <<>>])

\* a caller of the exported resolvePackages passes a client it opened
ResolvePackages ==
    /\ install.api = "none"
    /\ \E packageNames \in PackageNameLists :
         PkCommit(resolvePackages(
                      [PkSelf EXCEPT !.install.api = "resolvePackages",
                                     !.install.pkClient = "open"],
                      packageNames),
                  [op |-> "resolvePackages", tx |-> 0,
                   signal |-> "", args |-> <<>>])

\* PackageKit answers CreateTransaction with the transaction's path
TransactionCreated ==
    \E k \in 1..Len(transactions) :
      /\ transactions[k].stage = "creating"
      /\ install.pkClient = "open"
      /\ PkCommit(executor(PkSelf, k),
                  [op |-> "created", tx |-> k, signal |-> "", args |-> <<>>])

\* the CreateTransaction call fails
CreateFailed ==
    \E k \in 1..Len(transactions), err \in CallErrors :
      /\ transactions[k].stage = "creating"
      /\ PkCommit(createFailed(PkSelf, k, err),
                  [op |-> "createFailed", tx |-> k,
                   signal |-> "", args |-> <<>>])

\* PackageKit emits a signal on a transaction whose method was called;
\* Finished is the last signal of a transaction. The client delivers it to
\* the callback of a subscription that has not been removed.
Signal ==
    \E k \in 1..Len(transactions) :
      /\ transactions[k].stage = "called"
      /\ ~transactions[k].done
      /\ transactions[k].emitted < MaxSignals
      /\ install.pkClient = "open"
      /\ \E s \in Signals(transactions[k]) :
           LET emitted == [PkSelf EXCEPT
                   !.transactions[k].emitted = @ + 1,
                   !.transactions[k].done = (s[1] = "Finished"),
                   !.transactions[k].errorCode =
                       IF s[1] = "ErrorCode" /\ transactions[k].subscribed
                       THEN <<s[2][2]>> ELSE @,
                   !.transactions[k].firstPackage =
                       IF /\ s[1] = "Package" /\ transactions[k].subscribed
                          /\ \A f \in @ : f.name # SplitFirst(s[2][2], ";")
                       THEN @ \cup {[name |-> SplitFirst(s[2][2], ";"),
                                     info |-> s[2][1], id |-> s[2][2]]}
                       ELSE @]
           IN  PkCommit(
                 IF transactions[k].subscribed
                 THEN signalCallback(
                        [emitted EXCEPT !.transactions[k].received = @ + 1],
                        k, s[1], s[2])
                 ELSE IF ~transactions[k].finished
                 THEN [emitted EXCEPT !.transactions[k].missed = @ + 1]
                 ELSE emitted,
                 [op |-> "signal", tx |-> k, signal |-> s[1], args |-> s[2]])

\* the transaction method's call is answered: with its return, or with an
\* error (also the error every pending call gets when the client closes)
CallReply ==
    \E k \in 1..Len(transactions) :
      /\ transactions[k].replyPending
      /\ \/ /\ install.pkClient = "open"
            /\ PkCommit([PkSelf EXCEPT !.transactions[k].replyPending = FALSE],
                        [op |-> "callReturned", tx |-> k,
                         signal |-> "", args |-> <<>>])
         \/ \E err \in CallErrors :
              PkCommit(callCatch(
                         [PkSelf EXCEPT !.transactions[k].replyPending = FALSE],
                         k, err),
                       [op |-> "callFailed", tx |-> k,
                        signal |-> "", args |-> <<err.message>>])

NextInstall ==
    \/ InstallServicePackages
    \/ ResolvePackages
    \/ TransactionCreated
    \/ CreateFailed
    \/ Signal
    \/ CallReply

SpecInstall == Init /\ [][NextInstall]_vars

\* the records and fields have the shapes the operators assume
TypeOKInstall ==
    /\ install.pkClient \in {"none", "open", "closed"}
    /\ Len(install.outcome) <= 1
    /\ \A k \in 1..Len(transactions) :
         transactions[k].method \in {"Resolve", "InstallPackages"}


\* ---------------------------------------------------------------- C32
Txs == 1..Len(transactions)

\* the message of the Error an ErrorCode signal with these details makes
ErrorCodeMessage(details) ==
    IF details = <<>> THEN S_PackageKit_error ELSE details

\* the step delivered Finished to the callback of transaction k
FinishedDelivered(k) ==
    /\ pkEvent'.op = "signal" /\ pkEvent'.tx = k
    /\ pkEvent'.signal = "Finished"
    /\ transactions[k].subscribed

\* the step failed the method call of transaction k before it finished
CallFailedFirst(k) ==
    /\ pkEvent'.op = "callFailed" /\ pkEvent'.tx = k
    /\ ~transactions[k].finished

SettlesAsSpecified(k) ==
    /\ transactions'[k].settles <= 1
    /\ transactions[k].settled # <<>>
         => transactions'[k].settled = transactions[k].settled
    /\ FinishedDelivered(k) /\ transactions[k].errorCode = <<>>
         => transactions'[k].settled =
              <<[kind |-> "resolved", message |-> <<>>]>>
    /\ FinishedDelivered(k) /\ transactions[k].errorCode # <<>>
         => transactions'[k].settled =
              <<[kind |-> "rejected",
                 message |-> ErrorCodeMessage(transactions[k].errorCode[1])]>>
    /\ CallFailedFirst(k)
         => transactions'[k].settled =
              <<[kind |-> "rejected", message |-> pkEvent'.args[1]]>>
    /\ transactions'[k].settled # <<>>
         /\ transactions'[k].settled[1].kind = "resolved"
         => transactions'[k].errorCode = <<>>

\* C32: the promise of runTransaction settles at most once: resolved when
\* Finished arrives with no ErrorCode received before it, rejected with the
\* message of the last ErrorCode received when Finished arrives after one,
\* rejected with the call's error when the method call fails before
\* Finished; a transaction that reported ErrorCode is never resolved.
C32_SettlesOnce ==
    [][\A k \in Txs : SettlesAsSpecified(k)]_vars

\* Finished arrived as the third signal of a transaction, after an
\* ErrorCode, and the promise is rejected with the ErrorCode's message
C32_Witness ==
    \E k \in Txs :
      /\ pkEvent.op = "signal" /\ pkEvent.tx = k
      /\ pkEvent.signal = "Finished"
      /\ transactions[k].received = 3
      /\ transactions[k].errorCode = <<S_no_network>>
      /\ transactions[k].lastError = <<Error(S_no_network)>>
      /\ transactions[k].settled =
           <<[kind |-> "rejected", message |-> S_no_network]>>
      /\ transactions[k].settles = 1


\* ---------------------------------------------------------------- C33
\* the handlers' effects: their invocations and what the Package handler
\* of resolvePackages collects
HandlerEffects(k, txs, inst) ==
    <<txs[k].invoked, inst.seenNames, inst.installed, inst.available>>

FinishedIsFinal(k) ==
    /\ transactions[k].finished
         => /\ transactions'[k].finished
            /\ transactions'[k].invoked = transactions[k].invoked
            /\ transactions[k].method = "Resolve"
                 => HandlerEffects(k, transactions', install')
                      = HandlerEffects(k, transactions, install)
    /\ transactions'[k].removes =
         IF transactions'[k].finished THEN 1 ELSE 0

\* C33: once a runTransaction has finished, by Finished or by the failure
\* of the method call, no Package or ItemProgress handler is invoked for a
\* later signal, and the subscription has been removed exactly once, in
\* every interleaving of the signals with the completion of the call.
C33_NoHandlerAfterFinish ==
    [][\A k \in Txs : FinishedIsFinal(k)]_vars

\* the method call failed after one Package signal had been handled, and
\* PackageKit has emitted another Package signal since
C33_Witness ==
    \E k \in Txs :
      /\ pkEvent.op = "signal" /\ pkEvent.tx = k
      /\ pkEvent.signal = "Package"
      /\ transactions[k].finished
      /\ transactions[k].settled # <<>>
      /\ transactions[k].settled[1].message = S_not_authorized
      /\ transactions[k].emitted = 2
      /\ transactions[k].received = 1
      /\ transactions[k].invoked = 1
      /\ transactions[k].removes = 1


\* ---------------------------------------------------------------- C34
\* C34: in runTransaction the subscription to the transaction's signals
\* exists when the transaction method is called, so that every signal the
\* transaction emits from then on, until the transaction has finished,
\* reaches the subscription callback.
C34_SubscribedBeforeCall ==
    \A k \in Txs :
      transactions[k].stage = "called"
        => /\ transactions[k].subscribedAtCall
           /\ transactions[k].missed = 0
           /\ ~transactions[k].finished
                => /\ transactions[k].subscribed
                   /\ transactions[k].received = transactions[k].emitted

\* PackageKit emitted a signal while the method call had not yet returned,
\* and the callback received it
C34_Witness ==
    \E k \in Txs :
      /\ pkEvent.op = "signal" /\ pkEvent.tx = k
      /\ transactions[k].replyPending
      /\ transactions[k].emitted = 1
      /\ transactions[k].received = 1
      /\ ~transactions[k].finished


\* ---------------------------------------------------------------- C35
\* the names of the packages a result list holds
ListedNames(list) == {list[i].name : i \in 1..Len(list)}

\* the number of result lists that hold name
ListsHolding(name) ==
    (IF name \in ListedNames(install.installed) THEN 1 ELSE 0)
    + (IF name \in ListedNames(install.available) THEN 1 ELSE 0)
    + (IF Includes(install.unavailable, name) THEN 1 ELSE 0)

\* the Resolve transaction of the call has resolved and the .then callback
\* of resolvePackages has built the result
ResolveSucceeded(k) ==
    /\ transactions[k].method = "Resolve"
    /\ transactions[k].settled # <<>>
    /\ transactions[k].settled[1].kind = "resolved"

ResultMatchesSignals(k, name) ==
    /\ ListsHolding(name) = 1
    /\ Includes(install.unavailable, name)
         <=> \A f \in transactions[k].firstPackage : f.name # name
    /\ \A f \in transactions[k].firstPackage :
         f.name = name
           => \E i \in 1..Len(IF f.info = PK_INFO_INSTALLED
                              THEN install.installed ELSE install.available) :
                (IF f.info = PK_INFO_INSTALLED
                 THEN install.installed ELSE install.available)[i]
                  = [name |-> name, id |-> f.id]

\* C35: after every successful resolvePackages call each requested package
\* name is in exactly one of installed, available, unavailable: in
\* unavailable exactly when no Package signal named it, and otherwise in the
\* list and with the id that the first Package signal naming it gives.
C35_EachNameInOneList ==
    \A k \in Txs :
      ResolveSucceeded(k)
        => \A i \in 1..Len(install.packageNames) :
             ResultMatchesSignals(k, install.packageNames[i])


\* ---------------------------------------------------------------- C36
\* the service names SERVICE_PACKAGES lists
ServiceKeys == {S_guacd, S_xrdp}

\* the call has ended: its promise is settled, or it threw
Ended == install.outcome # <<>>

ClosedOnceWhenEnded ==
    /\ install.opens = 1
    /\ install.closes = IF Ended THEN 1 ELSE 0
    /\ install.pkClient = IF Ended THEN "closed" ELSE "open"

RejectedUntouched ==
    /\ Ended
    /\ install.outcome[1].kind = "rejected"
    /\ install.opens = 0
    /\ install.pkClient = "none"
    /\ transactions = <<>>

\* C36: installServicePackages closes the PackageKit client it opened
\* exactly once on every outcome (already installed, install success,
\* resolve failure, install failure, package not found), not before; for a
\* service name that SERVICE_PACKAGES does not list it rejects and neither
\* opens a client nor starts a transaction.
C36_ClientClosedOnce ==
    install.api = "installServicePackages"
      => IF install.serviceName[1] \in ServiceKeys
         THEN ClosedOnceWhenEnded
         ELSE RejectedUntouched


\* ---------------------------------------------------------------- C37
\* the install transactions the call has started
Installs == {k \in Txs : transactions[k].method = "InstallPackages"}

\* the ids of the packages resolved as available whose name is in names
AvailableIds(names) ==
    {install.available[i].id :
       i \in {j \in 1..Len(install.available) :
                Includes(names, install.available[j].name)}}

CandidateNames == SERVICE_PACKAGES(install.serviceName[1])[1].candidates

ExtraNames ==
    LET serviceInfo == SERVICE_PACKAGES(install.serviceName[1])[1]
    IN  IF serviceInfo.extras = <<>> THEN <<>> ELSE serviceInfo.extras[1]

MainInstalled ==
    \E i \in 1..Len(install.installed) :
      Includes(CandidateNames, install.installed[i].name)

\* the ids of s are different from each other and are exactly those of ids
ListsExactly(s, ids) ==
    /\ Len(s) = Cardinality(ids)
    /\ {s[i] : i \in 1..Len(s)} = ids

IsPrefix(s, t) == Len(s) <= Len(t) /\ SubSeq(t, 1, Len(s)) = s

\* no install transaction, and the call has ended as given
EndedWithout(kind, message) ==
    /\ Installs = {}
    /\ Ended
    /\ install.outcome[1].kind = kind
    /\ IsPrefix(message, install.outcome[1].message)

\* one install transaction, for these ids
InstallsOnly(first, rest) ==
    \E k \in Txs :
      /\ Installs = {k}
      /\ Len(transactions[k].args) = Cardinality(first) + Cardinality(rest)
      /\ first # {} => transactions[k].args[1] \in first
      /\ ListsExactly(SubSeq(transactions[k].args, Cardinality(first) + 1,
                             Len(transactions[k].args)), rest)

InstallAsResolved ==
    IF MainInstalled
    THEN IF AvailableIds(ExtraNames) = {}
         THEN EndedWithout("resolved", S_already_installed)
         ELSE InstallsOnly({}, AvailableIds(ExtraNames))
    ELSE IF AvailableIds(CandidateNames) = {}
         THEN EndedWithout("rejected", S_Package_not_found)
         ELSE \E main \in AvailableIds(CandidateNames) :
                InstallsOnly({main}, AvailableIds(ExtraNames))

\* C37: installServicePackages starts at most one install transaction per
\* call, only with ids of packages resolved as available: none when a main
\* candidate is installed and no extra is available (the call resolves with
\* 'already-installed'), none when no main candidate is installed or
\* available (it rejects with 'Package not found...'), only the available
\* extras when a main candidate is installed, otherwise one available main
\* candidate followed by all available extras; none unless Resolve succeeded.
C37_InstallOnlyAvailable ==
    install.api = "installServicePackages"
      => /\ Cardinality(Installs) <= 1
         /\ \A k \in Installs : \A i \in 1..Len(transactions[k].args) :
              transactions[k].args[i]
                \in AvailableIds(CandidateNames \o ExtraNames)
         /\ IF \E k \in Txs : ResolveSucceeded(k)
            THEN InstallAsResolved
            ELSE Installs = {}

\* both candidates of guacd were resolved as available, guacamole-server
\* first: the install transaction is for that one alone
C37_Witness ==
    /\ install.api = "installServicePackages"
    /\ Len(install.available) = 2
    /\ install.available[1].name = S_guacamole_server
    /\ install.available[2].name = S_guacd
    /\ \E k \in Installs :
         transactions[k].args = <<install.available[1].id>>


\* ======================================================================
\* sesman.ini and xrdp.ini: parseMaxDisconnectionTime,
\* updateMaxDisconnectionTime, parseXrdpPort, updateXrdpPort
\* ======================================================================

\* number of lines of an ini file
MaxLines == 3

S_xvnc_section == <<"[", "x", "v", "n", "c", "]">>
S_globals_section == <<"[", "g", "l", "o", "b", "a", "l", "s", "]">>
S_MaxDisconnectionTime == <<"p", "a", "r", "a", "m", "=", "-", "M", "a", "x", "D", "i", "s", "c", "o", "n", "n", "e", "c", "t", "i", "o", "n", "T", "i", "m", "e">>
S_MaxDisconnectionTime2 == <<"p", "a", "r", "a", "m", "=", "-", "-", "M", "a", "x", "D", "i", "s", "c", "o", "n", "n", "e", "c", "t", "i", "o", "n", "T", "i", "m", "e">>
S_param_eq == <<"p", "a", "r", "a", "m", "=">>
S_port_eq == <<"p", "o", "r", "t", "=">>

\* str.split(sep): the pieces between the separators, one piece more than
\* there are separators
RECURSIVE Split(_, _)
Split(str, sep) ==
    LET first == SplitFirst(str, sep)
    IN  IF Len(first) = Len(str) THEN <<first>>
        ELSE <<first>> \o Split(SubSeq(str, Len(first) + 2, Len(str)), sep)

\* the white space and line terminators String.prototype.trim removes and
\* \s matches, as far as one-byte characters go
WhiteSpace == {" ", "\t", "\n", "\r", "\f"}

\* the line terminators the . of a regular expression does not match
LineTerminators == {"\n", "\r"}

RECURSIVE trimStart(_)
trimStart(s) ==
    IF s # <<>> /\ Head(s) \in WhiteSpace THEN trimStart(Tail(s)) ELSE s

RECURSIVE trimEnd(_)
trimEnd(s) ==
    IF s # <<>> /\ s[Len(s)] \in WhiteSpace
    THEN trimEnd(SubSeq(s, 1, Len(s) - 1)) ELSE s

\* str.trim()
trim(s) == trimEnd(trimStart(s))

UpperCase ==
    <<"A", "B", "C", "D", "E", "F", "G", "H", "I", "J", "K", "L", "M",
      "N", "O", "P", "Q", "R", "S", "T", "U", "V", "W", "X", "Y", "Z">>

LowerCase ==
    <<"a", "b", "c", "d", "e", "f", "g", "h", "i", "j", "k", "l", "m",
      "n", "o", "p", "q", "r", "s", "t", "u", "v", "w", "x", "y", "z">>

\* str.toLowerCase() of a text of one-byte characters
toLowerCase(s) ==
    [i \in 1..Len(s) |->
       IF \E j \in 1..26 : UpperCase[j] = s[i]
       THEN LowerCase[CHOOSE j \in 1..26 : UpperCase[j] = s[i]]
       ELSE s[i]]

StartsWith(s, prefix) ==
    Len(prefix) <= Len(s) /\ SubSeq(s, 1, Len(prefix)) = prefix

\* what is left of s after its first n characters
Drop(s, n) == SubSeq(s, n + 1, Len(s))

\* line.match(/^\[.*\]$/)
IsSectionHeader(line) ==
    /\ Len(line) >= 2
    /\ line[1] = "[" /\ line[Len(line)] = "]"
    /\ \A i \in 1..Len(line) : line[i] \notin LineTerminators

\* line.match(/^param=(\d+)$/): <<>> without a match, else <<match[1]>>
MatchParamDigits(line) ==
    IF /\ StartsWith(line, S_param_eq)
       /\ Len(line) > Len(S_param_eq)
       /\ \A i \in (Len(S_param_eq) + 1)..Len(line) : IsDigit(line[i])
    THEN <<Drop(line, Len(S_param_eq))>>
    ELSE <<>>

\* line.match(/^port\s*=/i): <<>> without a match, else what follows the =
MatchPortKey(line) ==
    IF StartsWith(toLowerCase(line), S_port)
    THEN LET rest == trimStart(Drop(line, Len(S_port)))
         IN  IF rest # <<>> /\ Head(rest) = "=" THEN <<Tail(rest)>> ELSE <<>>
    ELSE <<>>

\* line.match(/^port\s*=\s*(.+)$/i): <<>> without a match, else <<match[1]>>.
\* \s* gives back what (.+) needs, so match[1] is the rest after the white
\* space, or the last white space character when there is nothing else
MatchPortValue(line) ==
    LET key == MatchPortKey(line)
        rest == trimStart(key[1])
    IN  IF key = <<>> \/ key[1] = <<>> THEN <<>>
        ELSE IF rest # <<>>
        THEN IF \E i \in 1..Len(rest) : rest[i] \in LineTerminators
             THEN <<>> ELSE <<rest>>
        ELSE IF key[1][Len(key[1])] \in LineTerminators THEN <<>>
        ELSE <<<<key[1][Len(key[1])]>>>>

\* the flag line of the setting, with one dash or two
IsMaxDisconnectionTime(line) ==
    line = S_MaxDisconnectionTime \/ line = S_MaxDisconnectionTime2

\* lines[i] of a JavaScript array, i from 0
Line(lines, i) == lines[i + 1]

\* any line that follows taken for the value line
ValueFollows_AnyLine(lines, i) == i + 1 < Len(lines)

\* lines[i + 1] is there and is a param=<digits> line
ValueFollows(lines, i) ==
    i + 1 < Len(lines) /\ MatchParamDigits(trim(Line(lines, i + 1))) # <<>>


\* the loop of parseMaxDisconnectionTime from line i on
RECURSIVE parseMaxDisconnectionTimeFrom(_, _, _)
parseMaxDisconnectionTimeFrom(lines, i, inXvncSection) ==
    IF i >= Len(lines) THEN 0
    ELSE LET line == trim(Line(lines, i))
         IN  IF IsSectionHeader(line)
             THEN parseMaxDisconnectionTimeFrom(
                      lines, i + 1, toLowerCase(line) = S_xvnc_section)
             ELSE IF ~inXvncSection
             THEN parseMaxDisconnectionTimeFrom(lines, i + 1, inXvncSection)
             ELSE IF IsMaxDisconnectionTime(line)
             THEN IF ValueFollows(lines, i)
                  THEN parseInt(MatchParamDigits(trim(Line(lines, i + 1))))[1]
                  ELSE 0
             ELSE parseMaxDisconnectionTimeFrom(lines, i + 1, inXvncSection)

parseMaxDisconnectionTime(iniText) ==
    parseMaxDisconnectionTimeFrom(Split(iniText, "\n"), 0, FALSE)

\* the flag written without its value line
SettingLines_FlagOnly(newValue) == <<S_MaxDisconnectionTime>>

\* the two lines updateMaxDisconnectionTime writes for the setting
SettingLines(newValue) ==
    <<S_MaxDisconnectionTime, S_param_eq \o NumberToString(newValue)>>

\* the loop of updateMaxDisconnectionTime from line i on, and what follows
\* the loop; w holds result, inXvncSection and foundAndReplaced
RECURSIVE updateMaxDisconnectionTimeFrom(_, _, _, _)
updateMaxDisconnectionTimeFrom(lines, i, w, newValue) ==
    IF i >= Len(lines)
    THEN IF w.inXvncSection /\ ~w.foundAndReplaced /\ newValue > 0
         THEN w.result \o SettingLines(newValue)
         ELSE w.result
    ELSE LET trimmed == trim(Line(lines, i))
             inject == w.inXvncSection /\ ~w.foundAndReplaced /\ newValue > 0
             skip == IF ValueFollows(lines, i) THEN 1 ELSE 0
         IN  IF IsSectionHeader(trimmed)
             THEN updateMaxDisconnectionTimeFrom(lines, i + 1,
                    [result |-> (IF inject
                                 THEN w.result \o SettingLines(newValue)
                                 ELSE w.result) \o <<Line(lines, i)>>,
                     inXvncSection |-> toLowerCase(trimmed) = S_xvnc_section,
                     foundAndReplaced |-> w.foundAndReplaced \/ inject],
                    newValue)
             ELSE IF w.inXvncSection /\ IsMaxDisconnectionTime(trimmed)
             THEN updateMaxDisconnectionTimeFrom(lines, i + skip + 1,
                    [w EXCEPT !.result = IF newValue > 0
                                         THEN @ \o SettingLines(newValue)
                                         ELSE @,
                              !.foundAndReplaced = TRUE],
                    newValue)
             ELSE updateMaxDisconnectionTimeFrom(lines, i + 1,
                    [w EXCEPT !.result = Append(@, Line(lines, i))],
                    newValue)

updateMaxDisconnectionTime(iniText, newValue) ==
    Join(updateMaxDisconnectionTimeFrom(
             Split(iniText, "\n"), 0,
             [result |-> <<>>, inXvncSection |-> FALSE,
              foundAndReplaced |-> FALSE],
             newValue),
         <<"\n">>)

\* a range check that takes the well-known ports for invalid
PortOr3389_Registered(val) ==
    IF val # <<>> /\ val[1] > 1023 /\ val[1] <= 65535 THEN val[1] ELSE 3389

\* (val > 0 && val <= 65535) ? val : 3389 of val = parseInt(text, 10)
PortOr3389(val) ==
    IF val # <<>> /\ val[1] > 0 /\ val[1] <= 65535 THEN val[1] ELSE 3389

\* the loop of parseXrdpPort from line i on
RECURSIVE parseXrdpPortFrom(_, _, _)
parseXrdpPortFrom(lines, i, inGlobals) ==
    IF i >= Len(lines) THEN 3389
    ELSE LET line == trim(Line(lines, i))
             match == MatchPortValue(line)
         IN  IF IsSectionHeader(line)
             THEN parseXrdpPortFrom(lines, i + 1,
                                    toLowerCase(line) = S_globals_section)
             ELSE IF ~inGlobals
             THEN parseXrdpPortFrom(lines, i + 1, inGlobals)
             ELSE IF match # <<>>
             THEN PortOr3389(parseInt(<<trim(match[1])>>))
             ELSE parseXrdpPortFrom(lines, i + 1, inGlobals)

parseXrdpPort(iniText) == parseXrdpPortFrom(Split(iniText, "\n"), 0, FALSE)

\* the loop of updateXrdpPort from line i on, and what follows the loop;
\* w holds result, inGlobals and foundAndReplaced
RECURSIVE updateXrdpPortFrom(_, _, _, _)
updateXrdpPortFrom(lines, i, w, newPort) ==
    LET portLine == S_port_eq \o NumberToString(newPort)
    IN  IF i >= Len(lines)
        THEN IF w.inGlobals /\ ~w.foundAndReplaced
             THEN Append(w.result, portLine)
             ELSE w.result
        ELSE LET trimmed == trim(Line(lines, i))
                 inject == w.inGlobals /\ ~w.foundAndReplaced
             IN  IF IsSectionHeader(trimmed)
                 THEN updateXrdpPortFrom(lines, i + 1,
                        [result |-> (IF inject THEN Append(w.result, portLine)
                                     ELSE w.result) \o <<Line(lines, i)>>,
                         inGlobals |-> toLowerCase(trimmed) = S_globals_section,
                         foundAndReplaced |-> w.foundAndReplaced \/ inject],
                        newPort)
                 ELSE IF w.inGlobals /\ MatchPortKey(trimmed) # <<>>
                 THEN updateXrdpPortFrom(lines, i + 1,
                        [w EXCEPT !.result = Append(@, portLine),
                                  !.foundAndReplaced = TRUE],
                        newPort)
                 ELSE updateXrdpPortFrom(lines, i + 1,
                        [w EXCEPT !.result = Append(@, Line(lines, i))],
                        newPort)

updateXrdpPort(iniText, newPort) ==
    Join(updateXrdpPortFrom(
             Split(iniText, "\n"), 0,
             [result |-> <<>>, inGlobals |-> FALSE,
              foundAndReplaced |-> FALSE],
             newPort),
         <<"\n">>)


\* ------------------------------------------------------ ini: actions
\* lines of /etc/xrdp/sesman.ini: section headers, the setting's flag with
\* one dash and (indented) with two, a numeric and another parameter, and
\* an empty line
L_Xvnc == <<"[", "X", "v", "n", "c", "]">>
L_Xorg == <<"[", "X", "o", "r", "g", "]">>
L_flag_indented == <<" ", "p", "a", "r", "a", "m", "=", "-", "-", "M", "a", "x", "D", "i", "s", "c", "o", "n", "n", "e", "c", "t", "i", "o", "n", "T", "i", "m", "e">>
L_param_60 == <<"p", "a", "r", "a", "m", "=", "6", "0">>
L_param_dpi == <<"p", "a", "r", "a", "m", "=", "-", "d", "p", "i">>

SesmanLines ==
    {L_Xvnc, L_Xorg, S_MaxDisconnectionTime, L_flag_indented, L_param_60,
     L_param_dpi, <<>>}

\* lines of /etc/xrdp/xrdp.ini: section headers, the port as a number, in
\* another spelling, as an address and without a value, and another key
\* that starts with the same letters
L_Globals == <<"[", "G", "l", "o", "b", "a", "l", "s", "]">>
L_port_3389 == <<"p", "o", "r", "t", "=", "3", "3", "8", "9">>
L_Port_spaced == <<" ", "P", "o", "r", "t", " ", "=", " ", "3", "3", "9", "0">>
L_port_address == <<"p", "o", "r", "t", "=", "t", "c", "p", ":", "/", "/", ":", "3", "3", "8", "9">>
L_port_empty == <<"p", "o", "r", "t", "=">>
L_portal == <<"p", "o", "r", "t", "a", "l", "=", "1">>

XrdpLines ==
    {L_Globals, L_Xorg, L_port_3389, L_Port_spaced, L_port_address,
     L_port_empty, L_portal}

\* the texts of at most MaxLines lines
Texts(lines) ==
    {Join(t, <<"\n">>) : t \in UNION {[1..n -> lines] : n \in 1..MaxLines}}

\* the values applyConfiguration passes: newTimeout is an integer >= 0,
\* newPort an integer from 1 to 65535
Timeouts == {0, 7, 60}

Ports == {1, 3389, 65535}

IniCommit(text, op, file, value) ==
    /\ iniContents' = text
    /\ iniEvent' = [op |-> op, file |-> file, before |-> iniContents,
                    value |-> value]
    /\ UNCHANGED <<tunnelVars, installVars>>

\* cat /etc/xrdp/sesman.ini gives the file's contents
ReadSesmanIni ==
    /\ iniEvent.op = "new"
    /\ \E text \in Texts(SesmanLines) : IniCommit(text, "cat", "sesman.ini", 0)

\* cat /etc/xrdp/xrdp.ini gives the file's contents
ReadXrdpIni ==
    /\ iniEvent.op = "new"
    /\ \E text \in Texts(XrdpLines) : IniCommit(text, "cat", "xrdp.ini", 0)

\* applyConfiguration, step 3: the contents are replaced by the updated ones
ApplyMaxDisconnectionTime ==
    /\ iniEvent.file = "sesman.ini"
    /\ \E newTimeout \in Timeouts :
         IniCommit(updateMaxDisconnectionTime(iniContents, newTimeout),
                   "updateMaxDisconnectionTime", "sesman.ini", newTimeout)

\* applyConfiguration, step 4: the contents are replaced by the updated ones
ApplyXrdpPort ==
    /\ iniEvent.file = "xrdp.ini"
    /\ \E newPort \in Ports :
         IniCommit(updateXrdpPort(iniContents, newPort),
                   "updateXrdpPort", "xrdp.ini", newPort)

NextIni ==
    \/ ReadSesmanIni
    \/ ReadXrdpIni
    \/ ApplyMaxDisconnectionTime
    \/ ApplyXrdpPort

SpecIni == Init /\ [][NextIni]_vars

\* ---------------------------------------------------------------- C38
\* the text has a line that is the header of the section
HasSection(text, section) ==
    LET lines == Split(text, "\n")
    IN  \E i \in 1..Len(lines) : toLowerCase(trim(lines[i])) = section

\* C38: for every ini text with an [Xvnc] section and every integer
\* v >= 0, parseMaxDisconnectionTime reads v from the text that
\* updateMaxDisconnectionTime(text, v) returns (0 when the setting was
\* removed), and updating that text with v again returns it unchanged.
C38_MaxDisconnectionTimeRoundTrip ==
    iniEvent.op = "updateMaxDisconnectionTime"
      /\ HasSection(iniEvent.before, S_xvnc_section)
      => /\ parseMaxDisconnectionTime(iniContents) = iniEvent.value
         /\ updateMaxDisconnectionTime(iniContents, iniEvent.value)
              = iniContents

\* the setting stood in the section with another value and with two
\* dashes, and has been rewritten to 7
C38_Witness ==
    /\ iniEvent.op = "updateMaxDisconnectionTime"
    /\ iniEvent.value = 7
    /\ iniEvent.before = Join(<<L_Xvnc, L_flag_indented, L_param_60>>, <<"\n">>)
    /\ iniContents = Join(<<L_Xvnc, S_MaxDisconnectionTime,
                            S_param_eq \o <<"7">> >>, <<"\n">>)
    /\ parseMaxDisconnectionTime(iniEvent.before) = 60


\* ---------------------------------------------------------------- C39
\* C39: for every ini text with a [globals] section and every port p from
\* 1 to 65535, parseXrdpPort reads p from the text that
\* updateXrdpPort(text, p) returns, and updating that text with p again
\* returns it unchanged.
C39_XrdpPortRoundTrip ==
    iniEvent.op = "updateXrdpPort"
      /\ HasSection(iniEvent.before, S_globals_section)
      /\ iniEvent.value >= 1 /\ iniEvent.value <= 65535
      => /\ parseXrdpPort(iniContents) = iniEvent.value
         /\ updateXrdpPort(iniContents, iniEvent.value) = iniContents

\* the section held the port twice, as an address and in another spelling,
\* and both lines have been rewritten to port 1
C39_Witness ==
    /\ iniEvent.op = "updateXrdpPort"
    /\ iniEvent.value = 1
    /\ iniEvent.before
         = Join(<<L_Globals, L_port_address, L_Port_spaced>>, <<"\n">>)
    /\ iniContents
         = Join(<<L_Globals, S_port_eq \o <<"1">>, S_port_eq \o <<"1">> >>,
                <<"\n">>)
    /\ parseXrdpPort(iniEvent.before) = 3389
    /\ parseXrdpPort(iniContents) = 1


\* ---------------------------------------------------------------- C40
\* the lines of the text other than the setting's own, in their order. The
\* setting's own lines are, inside the target section (below a header of
\* the section and above the next header): in sesman.ini the flag line and
\* the numeric param line right below a flag line, in xrdp.ini a line that
\* assigns port. inside: the nearest header above line i is the section's;
\* belowFlag: line i - 1 is a flag line inside the section.
RECURSIVE OtherLinesFrom(_, _, _, _, _)
OtherLinesFrom(lines, i, inside, belowFlag, file) ==
    IF i > Len(lines) THEN <<>>
    ELSE LET line == trim(lines[i])
             header == IsSectionHeader(line)
             flag == /\ inside /\ ~header /\ file = "sesman.ini"
                     /\ IsMaxDisconnectionTime(line)
             own == /\ inside /\ ~header
                    /\ IF file = "sesman.ini"
                       THEN flag \/ (belowFlag /\ MatchParamDigits(line) # <<>>)
                       ELSE MatchPortKey(line) # <<>>
         IN  (IF own THEN <<>> ELSE <<lines[i]>>)
               \o OtherLinesFrom(
                      lines, i + 1,
                      IF header
                      THEN toLowerCase(line)
                             = (IF file = "sesman.ini" THEN S_xvnc_section
                                ELSE S_globals_section)
                      ELSE inside,
                      flag, file)

OtherLines(text, file) ==
    OtherLinesFrom(Split(text, "\n"), 1, FALSE, FALSE, file)

TargetSection(file) ==
    IF file = "sesman.ini" THEN S_xvnc_section ELSE S_globals_section

\* C40: updateMaxDisconnectionTime and updateXrdpPort leave every line
\* outside the target section ([Xvnc], [globals]) unchanged and in the same
\* order, change only the setting's own lines inside it, and return a text
\* without the target section unchanged.
C40_OnlyTheSettingChanges ==
    iniEvent.op \in {"updateMaxDisconnectionTime", "updateXrdpPort"}
      => /\ OtherLines(iniContents, iniEvent.file)
              = OtherLines(iniEvent.before, iniEvent.file)
         /\ ~HasSection(iniEvent.before, TargetSection(iniEvent.file))
              => iniContents = iniEvent.before

\* the setting was removed from an [Xvnc] section, flag line and value
\* line, and the lines around them are as they were
C40_Witness ==
    /\ iniEvent.op = "updateMaxDisconnectionTime"
    /\ iniEvent.value = 0
    /\ iniEvent.before
         = Join(<<L_Xvnc, S_MaxDisconnectionTime, L_param_60>>, <<"\n">>)
    /\ iniContents = L_Xvnc

====
